---- MODULE Spec2Model ----
(***************************************************************************)
(* Model of meta-hybrid_mount: the planner (core/planner.rs), the overlay  *)
(* executor (core/executor.rs), the overlay mount primitive with its       *)
(* child-mount replay (mount/overlayfs/overlayfs.rs), the umount sink      *)
(* (try_umount.rs), the magic mount (mount/node.rs, mount/magic.rs) and    *)
(* conflict winnowing (core/winnow.rs).                                    *)
(*                                                                         *)
(* Paths are sequences of components: <<"mnt","A","system">> is            *)
(* /mnt/A/system.  The specifications that share the module:               *)
(*   SpecPlan      generate() on every bounded inventory / rootfs / config *)
(*   SpecPlanMany  generate() on inventories of up to ManyModules modules  *)
(*   SpecExec      execute() on every plan generate() can return           *)
(*   SpecMount     mount_overlay() on one target with existing children    *)
(*   SpecSink      send_unmountable() and commit() in any order            *)
(*   SpecThreads   send_unmountable() and commit() from several threads    *)
(*   SpecTree      collect_module_files() on two module directories        *)
(*   SpecMagic     do_magic_mount() on one directory node                  *)
(*   SpecPass      mount_partitions() and the executor's cleanup after it  *)
(*   SpecWinnow    sift_conflicts() on bounded conflicts and tables        *)
(*   SpecWinnowPartitions  sift_conflicts() on conflicts of two partitions *)
(*   SpecWinnowPlan  generate() with a winnowing table configured          *)
(***************************************************************************)
EXTENDS Integers, Sequences, FiniteSets, TLC

VARIABLES
    \* ---- planner (generate) ----
    config,         \* Config: partitions (user list), disable_umount
    modules,        \* the inventory handed to generate(), in scan order
    rootfs,         \* what "/<partition>" is on the live root filesystem
    plan,           \* the MountPlan generate() returned / execute() consumes
    ppc,            \* "idle" | "ready" | "done"
    \* ---- executor (execute) ----
    epc,            \* "idle" | "overlay" | "magic" | "finish" | "done" | "error"
    opIdx,          \* index of the next OverlayOp of plan.overlay_ops
    attempts,       \* [op, ok] of every mount_overlay call, in call order
    overlay_results,\* Vec<OverlayResult>, one per attempted op
    magic_queue,    \* Vec<PathBuf>
    final_overlay_ids, \* HashSet<String>
    global_success_map,\* HashMap<PathBuf, HashSet<String>>
    final_magic_ids,\* Vec<String>
    magic_outcome,  \* "none" | "skipped" | "setup_failed" | "ok" | "failed"
    sink,           \* try_umount: [ksu, history, list, commits]
    result,         \* "none" | [ok |-> FALSE] | [ok |-> TRUE, overlay_module_ids, magic_module_ids]
    \* ---- overlay mount primitive (mount_overlay) ----
    mpc,            \* "idle" | "enter" | "children" | "ok" | "err"
    mountinfo,      \* mount points of /proc/self/mountinfo, as listed
    mount_seq,      \* the child mount points collected, sorted and deduplicated
    cidx,           \* index of the next entry of mount_seq
    mounts,         \* the kernel mount table, in mount order
    childlog,       \* what each processed child mount point looked like, the
                    \* kernel's answers there, and what it got
    \* ---- umount sink driven directly (send_unmountable / commit) ----
    spc,            \* "idle" | "run"
    sched,          \* every path send_unmountable was called with, in call order
                    \* (by the driver of SpecSink, by the executor in SpecExec)
    umount_attempts,\* [flags, ok] of every list.umount() of the latest commit()
    commit_ret,     \* "none" | "ok": what the latest commit() returned
    \* ---- magic mount: collecting the node tree ----
    gpc,            \* "idle" | "ready" | "done"
    mod_dirs,       \* the module directories, in the order of module_paths
    merged,         \* "none" | [fwd, rev]: the (root, system) trees collected
                    \* from module_paths as given and from module_paths reversed
    \* ---- magic mount: mounting one directory node (handle_directory) ----
    hpc,            \* "idle" | "ready" | "done"
    hd_node,        \* the Node handed to MagicMount::new
    hd_live,        \* what the live tree holds at the node's path
    hd_has_tmpfs,   \* has_tmpfs: an ancestor already built a tmpfs
    hd_result,      \* "none" | what the node's path shows after do_magic_mount
    hd_umount,      \* MagicMount.umount: schedule the moved tmpfs for unmount
    hd_events,      \* the mount steps do_magic_mount made, in order
    \* ---- magic mount: one pass (mount_partitions) ----
    tpc,            \* "idle" | "ready" | "returned" | "done"
    workspace,      \* "absent" | "mounted" | "detached": the tmpfs on <tmp>/workdir
    pass_steps,     \* the steps of mount_partitions that ran, in order
    pass_ret,       \* "none" | "ok" | "err": what mount_partitions returned
    \* ---- conflict winnowing (sift_conflicts) ----
    wpc,            \* "idle" | "ready" | "done"
    wtable,         \* WinnowingTable.rules
    conflicts,      \* the ConflictDetail list handed to sift_conflicts
    report,         \* "none" | the Vec<ChaffConflict> returned
    \* ---- umount sink: threads calling send_unmountable / commit ----
    thr,            \* per thread: pc, the call it runs, its target, calls made
    locks           \* the thread holding the HISTORY / the LIST mutex, 0 when free

planVars == <<config, modules, rootfs, plan, ppc>>
execVars == <<epc, opIdx, attempts, overlay_results, magic_queue, final_overlay_ids,
              global_success_map, final_magic_ids, magic_outcome, sink, result>>
mountVars == <<mpc, mountinfo, mount_seq, cidx, mounts, childlog>>
sinkVars == <<spc, sched, umount_attempts, commit_ret>>
treeVars == <<gpc, mod_dirs, merged>>
magicVars == <<hpc, hd_node, hd_live, hd_has_tmpfs, hd_result, hd_umount, hd_events>>
winnowVars == <<wpc, wtable, conflicts, report>>
passVars == <<tpc, workspace, pass_steps, pass_ret>>
lockVars == <<thr, locks>>
auxVars == <<sinkVars, treeVars, magicVars, winnowVars, passVars, lockVars>>
vars == <<planVars, execVars, mountVars, auxVars>>

(***************************************************************************)
(* Bounds of the model                                                     *)
(***************************************************************************)
MaxModules == 2

(***************************************************************************)
(* Names and their byte order (Rust compares String / path components      *)
(* bytewise; TLA+ strings carry no order, so the order is tabulated).      *)
(***************************************************************************)
NameOrder ==
    <<"A", "B", "C", "D", "a", "a-b", "adb", "apex", "b", "c", "d", "data", "init.rc", "mnt",
      "modules", "nowhere", "odm", "oem", "product", "system", "system_ext", "vendor">>

\* Module ids of the large inventory: "1001", "1002", ...; digits sort before
\* letters and equal-length digit strings sort numerically.
ManyModules == 129
ManyNames == [i \in 1..ManyModules |-> ToString(1000 + i)]

\* Rank of a name in byte order: the numeric ids first, then NameOrder.
NameRank(n) ==
    IF \E i \in 1..Len(NameOrder) : NameOrder[i] = n
    THEN 10000 + (CHOOSE i \in 1..Len(NameOrder) : NameOrder[i] = n)
    ELSE CHOOSE i \in 1..ManyModules : ManyNames[i] = n

NameOfRank(r) == IF r > 10000 THEN NameOrder[r - 10000] ELSE ManyNames[r]

\* Ord for paths: componentwise, a proper prefix first.
RECURSIVE PathLess(_, _)
PathLess(p, q) ==
    IF q = <<>> THEN FALSE
    ELSE IF p = <<>> THEN TRUE
    ELSE IF p[1] = q[1] THEN PathLess(Tail(p), Tail(q))
    ELSE NameRank(p[1]) < NameRank(q[1])

\* slice::sort on names / on paths, then (for callers that ask) dedup: the
\* sorted sequence of a set is what sort() followed by dedup() leaves.
RECURSIVE SortInts(_)
SortInts(S) ==
    IF S = {} THEN <<>>
    ELSE LET m == CHOOSE x \in S : \A y \in S : x <= y
         IN  <<m>> \o SortInts(S \ {m})

SortNames(S) ==
    LET ranks == SortInts({NameRank(x) : x \in S})
    IN  [i \in 1..Len(ranks) |-> NameOfRank(ranks[i])]

RECURSIVE SortPaths(_)
SortPaths(S) ==
    IF S = {} THEN <<>>
    ELSE LET m == CHOOSE x \in S : \A y \in S : x = y \/ PathLess(x, y)
         IN  <<m>> \o SortPaths(S \ {m})

Range(s) == {s[i] : i \in 1..Len(s)}

\* Every iteration order a HashMap / HashSet over S can yield.
Orders(S) ==
    {s \in [1..Cardinality(S) -> S] : \A i, j \in 1..Cardinality(S) : s[i] = s[j] => i = j}

RECURSIVE Flatten(_)
Flatten(ss) == IF ss = <<>> THEN <<>> ELSE Head(ss) \o Flatten(Tail(ss))

(***************************************************************************)
(* defs.rs                                                                 *)
(***************************************************************************)
BUILTIN_PARTITIONS == <<"system", "vendor", "product", "system_ext", "odm", "oem", "apex">>
MODULES_DIR == <<"data", "adb", "modules">>

\* The storage root generate() is called with (StorageHandle.mount_point).
STORAGE_ROOT == <<"mnt">>

(***************************************************************************)
(* Input domains                                                           *)
(***************************************************************************)
ModuleNames == <<"A", "B", "C", "D">>

\* Partition directories a module of the model may carry.
ContentParts == {"system", "vendor"}

\* State of <content_path>/<part>: absent, an empty directory, a directory
\* with at least one entry.
ContentKinds == {"none", "empty", "files"}

\* What a magic module's partition directories hold: nothing at all, only
\* empty directories, files in one partition, or files next to an empty one.
MagicContents ==
    {c \in [ContentParts -> ContentKinds] :
        \/ c["system"] = c["vendor"] /\ c["system"] # "files"
        \/ c["system"] = "files" /\ c["vendor"] = "none"
        \/ c["system"] = "empty" /\ c["vendor"] = "files"}

ModuleShapes ==
    {[mode |-> "overlay", stored |-> st, content |-> c] :
        st \in BOOLEAN, c \in [ContentParts -> ContentKinds]}
    \cup {[mode |-> "magic", stored |-> TRUE, content |-> c] : c \in MagicContents}

\* A module that was not synced into storage has no content there; for a
\* magic module the content path is its source directory, which exists.
WellFormedShape(s) ==
    /\ (~s.stored) => (s.mode = "overlay" /\ \A p \in ContentParts : s.content[p] = "none")

Inventories ==
    UNION {
        {[i \in 1..n |-> [id |-> ModuleNames[i], mode |-> f[i].mode,
                          stored |-> f[i].stored, content |-> f[i].content]] :
            f \in [1..n -> {s \in ModuleShapes : WellFormedShape(s)}]}
        : n \in 0..MaxModules}

\* config.partitions: nothing, or a user entry repeating a builtin name.
UserPartitionChoices == {<<>>, <<"vendor">>}

Configs == {[partitions |-> up, disable_umount |-> du] :
                up \in UserPartitionChoices, du \in BOOLEAN}

\* generate() reads config.partitions only.
PlannerConfigs == {c \in Configs : ~c.disable_umount}

\* What "/<part>" is.  A symlink names its destination.
FsDir == [kind |-> "dir"]
FsMissing == [kind |-> "missing"]
FsFile == [kind |-> "file"]
FsLink(to) == [kind |-> "link", to |-> to]

LinkTargets == {<<"system">>, <<"system", "vendor">>, <<"nowhere">>, <<"init.rc">>}

RootFsChoices ==
    {[p \in ContentParts |->
        IF p = "system" THEN s ELSE v] :
        s \in {FsDir, FsMissing},
        v \in {FsDir, FsMissing, FsFile} \cup {FsLink(t) : t \in LinkTargets}}

(***************************************************************************)
(* Filesystem queries used by generate()                                   *)
(***************************************************************************)
\* lstat of a path of the live root
FsEntry(fs, path) ==
    IF Len(path) = 1 /\ path[1] \in DOMAIN fs THEN fs[path[1]]
    ELSE IF path = <<"init.rc">> THEN FsFile
    ELSE IF path = <<"system", "vendor">>
         THEN (IF fs["system"].kind = "dir" THEN FsDir ELSE FsMissing)
    ELSE FsMissing

\* Path::canonicalize: follows symlinks; Err on a missing component.
RECURSIVE Canonicalize(_, _, _)
Canonicalize(fs, path, fuel) ==
    LET e == FsEntry(fs, path)
    IN  IF fuel = 0 THEN [ok |-> FALSE]
        ELSE IF e.kind = "missing" THEN [ok |-> FALSE]
        ELSE IF e.kind = "link" THEN Canonicalize(fs, e.to, fuel - 1)
        ELSE [ok |-> TRUE, path |-> path, kind |-> e.kind]

SymlinkFuel == 4

path_is_symlink(fs, path) == FsEntry(fs, path).kind = "link"
path_exists(fs, path) == Canonicalize(fs, path, SymlinkFuel).ok

(***************************************************************************)
(* planner.rs                                                              *)
(***************************************************************************)
ContentKind(m, part) ==
    IF part \in DOMAIN m.content THEN m.content[part] ELSE "none"

\* fn has_files: read_dir yields at least one entry
has_files_bug(kind) == kind \in {"empty", "files"}
has_files(kind) == kind = "files"

kind_is_dir(kind) == kind \in {"empty", "files"}
kind_exists(kind) == kind # "none"

\* fn has_meaningful_content(base, partitions)
has_meaningful_content(m, parts) ==
    \E i \in 1..Len(parts) :
        kind_exists(ContentKind(m, parts[i])) /\ has_files(ContentKind(m, parts[i]))

\* target_partitions = BUILTIN_PARTITIONS ++ config.partitions
TargetPartitions(cfg) == BUILTIN_PARTITIONS \o cfg.partitions

SourcePath(m) == MODULES_DIR \o <<m.id>>
StoragePath(m) == STORAGE_ROOT \o <<m.id>>

\* The inner loop over target_partitions for one overlay module: the
\* (part, part_path) pairs pushed into partition_layers, in loop order.
ModuleLayers(m, parts) ==
    IF m.mode = "magic" \/ ~m.stored THEN <<>>
    ELSE LET all == [i \in 1..Len(parts) |->
                        [part |-> parts[i], path |-> StoragePath(m) \o <<parts[i]>>,
                         kind |-> ContentKind(m, parts[i])]]
             keep(r) == kind_is_dir(r.kind) /\ has_files(r.kind)
             kept == SelectSeq(all, keep)
         IN  [i \in 1..Len(kept) |-> [part |-> kept[i].part, path |-> kept[i].path]]

\* The variant that walks the modules last to first, and every push of
\* the outer loop over modules, in order.
AllLayers_reversed(mods, parts) ==
    Flatten([i \in 1..Len(mods) |-> ModuleLayers(mods[Len(mods) + 1 - i], parts)])
AllLayers(mods, parts) ==
    Flatten([i \in 1..Len(mods) |-> ModuleLayers(mods[i], parts)])

\* partition_layers: HashMap<String, Vec<PathBuf>>
PartitionLayers(mods, parts) ==
    LET all == AllLayers(mods, parts)
        keys == {all[i].part : i \in 1..Len(all)}
    IN  [p \in keys |->
            LET of(r) == r.part = p
                mine == SelectSeq(all, of)
            IN  [i \in 1..Len(mine) |-> mine[i].path]]

OverlayIds(mods, parts) ==
    {mods[i].id : i \in {j \in 1..Len(mods) : ModuleLayers(mods[j], parts) # <<>>}}

MagicModules(mods, parts) ==
    {i \in 1..Len(mods) : mods[i].mode = "magic" /\ has_meaningful_content(mods[i], parts)}

MagicPaths(mods, parts) == {SourcePath(mods[i]) : i \in MagicModules(mods, parts)}
MagicIds(mods, parts) == {mods[i].id : i \in MagicModules(mods, parts)}

\* Lines 81-103: resolve "/<part>"; [ok |-> FALSE] is a `continue`.
ResolveTarget_literal(fs, part) ==
    IF FsEntry(fs, <<part>>).kind = "missing" THEN [ok |-> FALSE]
    ELSE [ok |-> TRUE, path |-> <<part>>]
ResolveTarget(fs, part) ==
    LET initial == <<part>>
    IN  IF path_is_symlink(fs, initial) \/ path_exists(fs, initial)
        THEN LET c == Canonicalize(fs, initial, SymlinkFuel)
             IN  IF ~c.ok THEN [ok |-> FALSE]
                 ELSE IF c.kind # "dir" THEN [ok |-> FALSE]
                 ELSE [ok |-> TRUE, path |-> c.path]
        ELSE [ok |-> FALSE]

\* The loop `for (part, layers) in partition_layers`, visiting the map in
\* the iteration order `order`.  partition_name is the field execute()
\* reads from each op (executor.rs, op.partition_name): the map key.
RECURSIVE BuildOps(_, _, _)
BuildOps(fs, layers, order) ==
    IF order = <<>> THEN <<>>
    ELSE LET part == Head(order)
             r == ResolveTarget(fs, part)
             rest == BuildOps(fs, layers, Tail(order))
         IN  IF r.ok
             THEN <<[target |-> r.path, partition_name |-> part,
                     lowerdirs |-> layers[part]]>> \o rest
             ELSE rest

\* fn generate
GeneratePlan(cfg, mods, fs, order, magic_order) ==
    LET parts == TargetPartitions(cfg)
        layers == PartitionLayers(mods, parts)
    IN  [overlay_ops |-> BuildOps(fs, layers, order),
         magic_module_paths |-> magic_order,
         overlay_module_ids |-> SortNames(OverlayIds(mods, parts)),
         magic_module_ids |-> SortNames(MagicIds(mods, parts))]

NoPlan == [overlay_ops |-> <<>>, magic_module_paths |-> <<>>,
           overlay_module_ids |-> <<>>, magic_module_ids |-> <<>>]

IdleExec ==
    /\ epc = "idle" /\ opIdx = 0 /\ attempts = <<>> /\ overlay_results = <<>>
    /\ magic_queue = <<>> /\ final_overlay_ids = {} /\ global_success_map = <<>>
    /\ final_magic_ids = <<>> /\ magic_outcome = "none"
    /\ sink = [ksu |-> FALSE, history |-> {}, list |-> <<>>, commits |-> 0]
    /\ result = "none"

IdleMount ==
    /\ mpc = "idle" /\ mountinfo = <<>> /\ mount_seq = <<>> /\ cidx = 0
    /\ mounts = <<>> /\ childlog = <<>>

IdlePlan ==
    /\ config = [partitions |-> <<>>, disable_umount |-> FALSE]
    /\ modules = <<>>
    /\ rootfs = [p \in ContentParts |-> FsDir]
    /\ plan = NoPlan
    /\ ppc = "idle"

IdleSink ==
    /\ spc = "idle" /\ sched = <<>> /\ umount_attempts = <<>> /\ commit_ret = "none"

IdleTree ==
    /\ gpc = "idle" /\ mod_dirs = <<>> /\ merged = "none"

IdleMagic ==
    /\ hpc = "idle" /\ hd_node = "none" /\ hd_live = "none" /\ hd_has_tmpfs = FALSE
    /\ hd_result = "none" /\ hd_umount = FALSE /\ hd_events = <<>>

IdlePass ==
    /\ tpc = "idle" /\ workspace = "absent" /\ pass_steps = <<>> /\ pass_ret = "none"

IdleWinnow ==
    /\ wpc = "idle" /\ wtable = <<>> /\ conflicts = <<>> /\ report = "none"

IdleThreads ==
    /\ thr = <<>> /\ locks = [history |-> 0, list |-> 0]

IdleAux ==
    /\ IdleSink
    /\ IdleTree
    /\ IdleMagic
    /\ IdleWinnow
    /\ IdlePass
    /\ IdleThreads

InitPlan ==
    /\ config \in PlannerConfigs
    /\ modules \in Inventories
    /\ rootfs \in RootFsChoices
    /\ plan = NoPlan
    /\ ppc = "ready"
    /\ IdleExec
    /\ IdleMount
    /\ IdleAux

Generate ==
    /\ ppc = "ready"
    /\ LET parts == TargetPartitions(config)
       IN  \E order \in Orders(DOMAIN PartitionLayers(modules, parts)),
              magic_order \in Orders(MagicPaths(modules, parts)) :
                plan' = GeneratePlan(config, modules, rootfs, order, magic_order)
    /\ ppc' = "done"
    /\ UNCHANGED <<config, modules, rootfs, execVars, mountVars>>
    /\ UNCHANGED auxVars

NextPlan == Generate

SpecPlan == InitPlan /\ [][NextPlan]_vars

\* generate() on a large inventory: n overlay modules that all ship files
\* for /system, on a device whose partitions are plain directories.
ManyInventory(n) ==
    [i \in 1..n |-> [id |-> ManyNames[i], mode |-> "overlay", stored |-> TRUE,
                      content |-> [p \in ContentParts |->
                                      IF p = "system" THEN "files" ELSE "none"]]]

InitPlanMany ==
    /\ config \in {c \in PlannerConfigs : c.partitions = <<>>}
    /\ modules \in {ManyInventory(n) : n \in 1..ManyModules}
    /\ rootfs = [p \in ContentParts |-> FsDir]
    /\ plan = NoPlan
    /\ ppc = "ready"
    /\ IdleExec
    /\ IdleMount
    /\ IdleAux

SpecPlanMany == InitPlanMany /\ [][NextPlan]_vars

(***************************************************************************)
(* executor.rs                                                             *)
(***************************************************************************)
\* Option<T>
None == [some |-> FALSE]
Some(v) == [some |-> TRUE, v |-> v]

\* fn extract_module_root: Path::parent (None for "/" and for "")
extract_module_root(path) ==
    IF Len(path) = 0 THEN None ELSE Some(SubSeq(path, 1, Len(path) - 1))

\* Path::file_name
file_name(path) == IF Len(path) = 0 THEN None ELSE Some(path[Len(path)])

\* utils::extract_module_id: the basename of the lowerdir's parent directory
extract_module_id(path) ==
    IF Len(path) = 0 THEN None ELSE file_name(SubSeq(path, 1, Len(path) - 1))

\* try_umount::send_unmountable on the process-global sink
send_unmountable_nodedup(s, target) ==
    IF ~s.ksu THEN s
    ELSE [s EXCEPT !.history = @ \cup {target}, !.list = Append(@, target)]
send_unmountable(s, target) ==
    IF ~s.ksu THEN s
    ELSE IF target \in s.history THEN s
    ELSE [s EXCEPT !.history = @ \cup {target}, !.list = Append(@, target)]

\* try_umount::commit
commit(s) == IF ~s.ksu THEN s ELSE [s EXCEPT !.commits = @ + 1]

\* Lines 154-172: the OverlayResult of an op whose mount_overlay failed.
FallbackResult_keepids(op) ==
    LET roots == [i \in 1..Len(op.lowerdirs) |-> extract_module_root(op.lowerdirs[i])]
        has(r) == r.some
        kept == SelectSeq(roots, has)
    IN  [magic_roots |-> [i \in 1..Len(kept) |-> kept[i].v],
         fallback_ids |-> <<>>,
         success_records |-> <<>>]
FallbackResult(op) ==
    LET lay == [i \in 1..Len(op.lowerdirs) |->
                    [root |-> extract_module_root(op.lowerdirs[i]),
                     id |-> extract_module_id(op.lowerdirs[i])]]
        hasRoot(r) == r.root.some
        hasId(r) == r.root.some /\ r.id.some
        withRoot == SelectSeq(lay, hasRoot)
        withId == SelectSeq(lay, hasId)
    IN  [magic_roots |-> [i \in 1..Len(withRoot) |-> withRoot[i].root.v],
         fallback_ids |-> [i \in 1..Len(withId) |-> withId[i].id.v],
         success_records |-> <<>>]

\* Lines 182-194: the OverlayResult of an op that was mounted.
SuccessResult(op) ==
    LET roots == [i \in 1..Len(op.lowerdirs) |-> extract_module_root(op.lowerdirs[i])]
        has(r) == r.some
        kept == SelectSeq(roots, has)
    IN  [magic_roots |-> <<>>,
         fallback_ids |-> <<>>,
         success_records |->
            [i \in 1..Len(kept) |-> [root |-> kept[i].v, partition |-> op.partition_name]]]

\* Every (config, plan) generate() can hand to execute().
GeneratedPlans ==
    UNION {
        LET parts == TargetPartitions(c)
        IN  {[config |-> c, plan |-> GeneratePlan(c, m, fs, o, mo)] :
                o \in Orders(DOMAIN PartitionLayers(m, parts)),
                mo \in Orders(MagicPaths(m, parts))}
        : c \in PlannerConfigs, m \in Inventories, fs \in RootFsChoices}

\* execute() entered: lines 100-108 have run.
InitExec ==
    /\ \E g \in GeneratedPlans, du \in BOOLEAN :
            /\ config = [g.config EXCEPT !.disable_umount = du]
            /\ plan = g.plan
    /\ modules = <<>>
    /\ rootfs = [p \in ContentParts |-> FsDir]
    /\ ppc = "idle"
    /\ epc = "overlay"
    /\ opIdx = 1
    /\ attempts = <<>>
    /\ overlay_results = <<>>
    /\ magic_queue = plan.magic_module_paths
    /\ final_overlay_ids = Range(plan.overlay_module_ids)
    /\ global_success_map = <<>>
    /\ final_magic_ids = <<>>
    /\ magic_outcome = "none"
    /\ sink \in {[ksu |-> k, history |-> {}, list |-> <<>>, commits |-> 0] : k \in BOOLEAN}
    /\ result = "none"
    /\ IdleMount
    /\ IdleAux

\* Lines 115-195: the closure run on one op; mount_ok is what
\* overlayfs::mount_overlay returned, sched the targets send_unmountable
\* was called with.  Ahead of it two variants: one that stops at the
\* first failed op, one that schedules every target.
ExecOp_abort ==
    /\ epc = "overlay"
    /\ opIdx <= Len(plan.overlay_ops)
    /\ LET op == plan.overlay_ops[opIdx]
       IN  \E mount_ok \in BOOLEAN :
            /\ attempts' = Append(attempts, [op |-> opIdx, ok |-> mount_ok])
            /\ IF mount_ok
               THEN /\ sink' = (IF ~config.disable_umount
                                THEN send_unmountable(sink, op.target) ELSE sink)
                    /\ sched' = (IF ~config.disable_umount
                                 THEN Append(sched, op.target) ELSE sched)
                    /\ overlay_results' = Append(overlay_results, SuccessResult(op))
                    /\ opIdx' = opIdx + 1
               ELSE /\ sink' = sink
                    /\ sched' = sched
                    /\ overlay_results' = Append(overlay_results, FallbackResult(op))
                    /\ opIdx' = Len(plan.overlay_ops) + 1
    /\ UNCHANGED <<planVars, mountVars, epc, magic_queue, final_overlay_ids, global_success_map,
                   final_magic_ids, magic_outcome, result>>
    /\ UNCHANGED <<spc, umount_attempts, commit_ret, treeVars, magicVars, winnowVars, passVars, lockVars>>
ExecOp_schedule_all ==
    /\ epc = "overlay"
    /\ opIdx <= Len(plan.overlay_ops)
    /\ LET op == plan.overlay_ops[opIdx]
       IN  \E mount_ok \in BOOLEAN :
            /\ attempts' = Append(attempts, [op |-> opIdx, ok |-> mount_ok])
            /\ sink' = send_unmountable(sink, op.target)
            /\ sched' = Append(sched, op.target)
            /\ overlay_results' = Append(overlay_results,
                                         IF mount_ok THEN SuccessResult(op)
                                         ELSE FallbackResult(op))
    /\ opIdx' = opIdx + 1
    /\ UNCHANGED <<planVars, mountVars, epc, magic_queue, final_overlay_ids, global_success_map,
                   final_magic_ids, magic_outcome, result>>
    /\ UNCHANGED <<spc, umount_attempts, commit_ret, treeVars, magicVars, winnowVars, passVars, lockVars>>
ExecOp ==
    /\ epc = "overlay"
    /\ opIdx <= Len(plan.overlay_ops)
    /\ LET op == plan.overlay_ops[opIdx]
       IN  \E mount_ok \in BOOLEAN :
            /\ attempts' = Append(attempts, [op |-> opIdx, ok |-> mount_ok])
            /\ IF mount_ok
               THEN /\ sink' = (IF ~config.disable_umount
                                THEN send_unmountable(sink, op.target) ELSE sink)
                    /\ sched' = (IF ~config.disable_umount
                                 THEN Append(sched, op.target) ELSE sched)
                    /\ overlay_results' = Append(overlay_results, SuccessResult(op))
               ELSE /\ sink' = sink
                    /\ sched' = sched
                    /\ overlay_results' = Append(overlay_results, FallbackResult(op))
    /\ opIdx' = opIdx + 1
    /\ UNCHANGED <<planVars, mountVars, epc, magic_queue, final_overlay_ids, global_success_map,
                   final_magic_ids, magic_outcome, result>>
    /\ UNCHANGED <<spc, umount_attempts, commit_ret, treeVars, magicVars, winnowVars, passVars, lockVars>>

\* Lines 198-211 folded over the collected results.
RECURSIVE ExtendQueue(_, _)
ExtendQueue(q, rs) ==
    IF rs = <<>> THEN q ELSE ExtendQueue(q \o Head(rs).magic_roots, Tail(rs))

RemoveFallbackIds_kept(ids, rs) == ids
RemoveFallbackIds(ids, rs) ==
    ids \ UNION {Range(rs[i].fallback_ids) : i \in 1..Len(rs)}

SuccessMap(rs) ==
    LET recs == Flatten([i \in 1..Len(rs) |-> rs[i].success_records])
        roots == {recs[i].root : i \in 1..Len(recs)}
    IN  [r \in roots |-> {recs[i].partition : i \in {j \in 1..Len(recs) : recs[j].root = r}}]

\* Lines 220-226: the module name of every queued path that has one.
MagicIdsOf(q) ==
    LET names == [i \in 1..Len(q) |-> file_name(q[i])]
        has(n) == n.some
        kept == SelectSeq(names, has)
    IN  [i \in 1..Len(kept) |-> kept[i].v]

\* Lines 198-226
Reconcile ==
    /\ epc = "overlay"
    /\ opIdx > Len(plan.overlay_ops)
    /\ magic_queue' = SortPaths(Range(ExtendQueue(magic_queue, overlay_results)))
    /\ final_overlay_ids' = RemoveFallbackIds(final_overlay_ids, overlay_results)
    /\ global_success_map' = SuccessMap(overlay_results)
    /\ final_magic_ids' = MagicIdsOf(magic_queue')
    /\ epc' = "magic"
    /\ UNCHANGED <<planVars, mountVars, opIdx, attempts, overlay_results, magic_outcome, sink, result>>
    /\ UNCHANGED auxVars

\* mount/magic.rs, fn mount_partitions, lines 460-465: once the walk has
\* run the pass ends, whatever do_magic_mount returned, with
\* try_umount::commit() unless umount is disabled.  `reached` is FALSE when
\* the pass returns before that (no content collected, or an error in one
\* of the setup steps ahead of the walk).
magic_pass_commit(s, cfg, reached) ==
    IF reached /\ ~cfg.disable_umount THEN commit(s) ELSE s

\* magic_mount::magic_mount as the executor calls it (lines 243-250): the
\* arguments are the temp dir, the module dir, the mount source, the
\* partitions, magic_need_ids and the umount flag; global_success_map is
\* not among them.  For a module among need_ids the pass builds the tree
\* of every partition directory the module has (`dirs`: its partition
\* directories with content); for any other module, nothing.
magic_tree_partitions(id, need_ids, dirs) == IF id \in need_ids THEN dirs ELSE {}

\* Lines 243-254: final_magic_ids after magic_mount returned; an Err
\* clears the list.
magic_ids_after_pass_kept(ids, mount_ok) == ids
magic_ids_after_pass(ids, mount_ok) == IF mount_ok THEN ids ELSE <<>>

\* Lines 228-259.  select_temp_dir()? and create_dir_all()? return early;
\* a magic_mount error clears final_magic_ids.
MagicPhase ==
    /\ epc = "magic"
    /\ IF magic_queue = <<>>
       THEN /\ magic_outcome' = "skipped"
            /\ epc' = "finish"
            /\ UNCHANGED <<final_magic_ids, result, sink>>
       ELSE \E setup_ok \in BOOLEAN, mount_ok \in BOOLEAN, reached \in BOOLEAN :
                IF ~setup_ok
                THEN /\ mount_ok /\ reached
                     /\ magic_outcome' = "setup_failed"
                     /\ epc' = "error"
                     /\ result' = [ok |-> FALSE]
                     /\ UNCHANGED <<final_magic_ids, sink>>
                ELSE /\ magic_outcome' = (IF mount_ok THEN "ok" ELSE "failed")
                     /\ final_magic_ids' = magic_ids_after_pass(final_magic_ids, mount_ok)
                     /\ sink' = magic_pass_commit(sink, config, reached)
                     /\ epc' = "finish"
                     /\ UNCHANGED result
    /\ UNCHANGED <<planVars, mountVars, opIdx, attempts, overlay_results, magic_queue,
                   final_overlay_ids, global_success_map>>
    /\ UNCHANGED auxVars

\* Lines 261-281
Finish ==
    /\ epc = "finish"
    /\ sink' = (IF ~config.disable_umount THEN commit(sink) ELSE sink)
    /\ result' = [ok |-> TRUE,
                  overlay_module_ids |-> SortNames(final_overlay_ids),
                  magic_module_ids |-> SortNames(Range(final_magic_ids))]
    /\ epc' = "done"
    /\ UNCHANGED <<planVars, mountVars, opIdx, attempts, overlay_results, magic_queue,
                   final_overlay_ids, global_success_map, final_magic_ids, magic_outcome>>
    /\ UNCHANGED auxVars

NextExec == ExecOp \/ Reconcile \/ MagicPhase \/ Finish

SpecExec == InitExec /\ [][NextExec]_vars

(***************************************************************************)
(* mount/overlayfs/overlayfs.rs and mount/overlayfs/utils.rs               *)
(***************************************************************************)
MaxChildMounts == 2

\* The OverlayOp mount_overlay is called for.
MOUNT_ROOT == <<"system">>
MODULE_ROOTS == <<STORAGE_ROOT \o <<"A", "system">>, STORAGE_ROOT \o <<"B", "system">>>>

\* Mount points that may pre-exist: beneath the target (one of them nested in
\* another, one a sibling whose string sorts between the two), the target
\* itself, and a sibling whose name extends the target's.
ChildCandidates == {<<"system", "a">>, <<"system", "a", "b">>, <<"system", "a-b">>}
OtherCandidates == {<<"system">>, <<"system_ext">>}

IsPrefix(p, q) == Len(p) <= Len(q) /\ SubSeq(q, 1, Len(p)) = p

\* /proc/self/mountinfo: the mount points, one of them possibly listed twice
\* (a mount stacked on another).
MountInfos ==
    UNION {
        {SortPaths(cs \cup os) \o dup :
            dup \in {<<>>} \cup {<<c>> : c \in cs}}
        : cs \in {x \in SUBSET ChildCandidates : Cardinality(x) <= MaxChildMounts},
          os \in SUBSET OtherCandidates}

\* What the kernel says to a mount attempt: the fsopen/fsconfig/fsmount/
\* move_mount sequence succeeds or not, the legacy mount(2) succeeds or not.
OverlayEnvs ==
    {[new_api |-> TRUE, legacy |-> TRUE], [new_api |-> FALSE, legacy |-> TRUE],
     [new_api |-> FALSE, legacy |-> FALSE]}

BindEnvs ==
    {[open_tree |-> TRUE, move_mount |-> TRUE, legacy |-> TRUE],
     [open_tree |-> TRUE, move_mount |-> FALSE, legacy |-> TRUE],
     [open_tree |-> FALSE, move_mount |-> TRUE, legacy |-> TRUE],
     [open_tree |-> FALSE, move_mount |-> TRUE, legacy |-> FALSE]}

EntryKinds == {"none", "dir", "file"}

\* What one child mount point looks like when it is processed: the stock
\* path below the working directory, <lower><relative> for every module
\* root, and the kernel's answers.
ChildEnvs ==
    [stock : EntryKinds, lower : [1..Len(MODULE_ROOTS) -> EntryKinds],
     nested : OverlayEnvs, bind : BindEnvs]

\* The environments that differ in something mount_overlay's loop looks at:
\* an answer that is never asked for is held at one value.
AnswerOk(e) == e.new_api \/ e.legacy
AnswersUnused(e, nested, bind) ==
    /\ nested => (e.nested.new_api /\ e.nested.legacy)
    /\ bind => (e.bind.open_tree /\ e.bind.move_mount /\ e.bind.legacy)
AllNone(lower) == \A i \in DOMAIN lower : lower[i] = "none"
ConsultedChildEnvs ==
    {e \in ChildEnvs :
        IF e.stock = "none" THEN AllNone(e.lower) /\ AnswersUnused(e, TRUE, TRUE)
        ELSE IF AllNone(e.lower) THEN AnswersUnused(e, TRUE, FALSE)
        ELSE IF e.stock # "dir" \/ \E i \in DOMAIN e.lower : e.lower[i] = "file"
        THEN AnswersUnused(e, TRUE, TRUE)
        ELSE AnswersUnused(e, FALSE, AnswerOk(e.nested))}

\* ---- the kernel mount table ----
NextMountId(mts) ==
    IF mts = <<>> THEN 1
    ELSE 1 + (CHOOSE m \in {mts[i].id : i \in 1..Len(mts)} :
                \A i \in 1..Len(mts) : mts[i].id <= m)

\* A mount is visible while no later mount sits on its mount point or on an
\* ancestor of it.
Visible(mts, i) == ~\E j \in (i + 1)..Len(mts) : IsPrefix(mts[j].point, mts[i].point)

\* The mount a path resolves into: the visible mount with the longest mount
\* point that is a prefix of the path (0: the root filesystem).
MountAt(mts, path) ==
    LET cand == {i \in 1..Len(mts) : Visible(mts, i) /\ IsPrefix(mts[i].point, path)}
    IN  IF cand = {} THEN 0
        ELSE mts[CHOOSE i \in cand :
                    \A j \in cand : Len(mts[j].point) <= Len(mts[i].point)].id

\* The mount whose root is `point`, if the path resolves to one.
TopMount(mts, point) ==
    LET cand == {i \in 1..Len(mts) : Visible(mts, i) /\ mts[i].point = point}
    IN  IF cand = {} THEN None ELSE Some(mts[CHOOSE i \in cand : TRUE])

DoMount(mts, point, kind, src) ==
    Append(mts, [id |-> NextMountId(mts), point |-> point, kind |-> kind,
                 parent |-> MountAt(mts, point), src |-> src, via |-> "none"])

RECURSIVE StockMounts(_, _)
StockMounts(mts, points) ==
    IF points = <<>> THEN mts
    ELSE StockMounts(DoMount(mts, Head(points), "stock", <<>>), Tail(points))

\* umount2(path, flags): EINVAL if the path is no mount point; without
\* MNT_DETACH, EBUSY while other mounts are mounted on the mount.
Umount2(mts, point, detach) ==
    LET top == TopMount(mts, point)
        busy == \E i \in 1..Len(mts) : mts[i].parent = top.v.id
        keep(m) == m.id # top.v.id
    IN  IF ~top.some THEN [ok |-> FALSE, mounts |-> mts]
        ELSE IF busy /\ ~detach THEN [ok |-> FALSE, mounts |-> mts]
        ELSE [ok |-> TRUE, mounts |-> SelectSeq(mts, keep)]

\* fn umount_dir (overlayfs/utils.rs): unmount(src, UnmountFlags::empty())
umount_dir(mts, point) == Umount2(mts, point, FALSE)

\* Lines 28-33: the entries joined with ":" into the lowerdir option; ahead
\* of it the variant that puts `lowest` first.
lowerdir_config_lowest_first(lower_dirs, lowest) == <<lowest>> \o lower_dirs
lowerdir_config(lower_dirs, lowest) == lower_dirs \o <<lowest>>

\* fn mount_overlayfs: the new mount API first (fsconfig "lowerdir", lines
\* 49-67), mount(2) with data "lowerdir=.." when it fails (lines 69-82);
\* both are given the one lowerdir_config.  `via` tells which of the two
\* made the mount.
mount_overlayfs(mts, lower_dirs, lowest, dest, env) ==
    LET made == DoMount(mts, dest, "overlay", lowerdir_config(lower_dirs, lowest))
    IN  IF env.new_api
        THEN [ok |-> TRUE, mounts |-> [made EXCEPT ![Len(made)].via = "fsconfig"]]
        ELSE IF env.legacy
        THEN [ok |-> TRUE, mounts |-> [made EXCEPT ![Len(made)].via = "mount"]]
        ELSE [ok |-> FALSE, mounts |-> mts]

\* fn bind_mount: open_tree + move_mount; mount(2) with BIND|REC only when
\* open_tree itself fails.
bind_mount(mts, from, to, env) ==
    IF env.open_tree
    THEN (IF env.move_mount
          THEN [ok |-> TRUE, mounts |-> DoMount(mts, to, "bind", from)]
          ELSE [ok |-> FALSE, mounts |-> mts])
    ELSE (IF env.legacy
          THEN [ok |-> TRUE, mounts |-> DoMount(mts, to, "bind", from)]
          ELSE [ok |-> FALSE, mounts |-> mts])

\* The prefix of `kinds` the loop of lines 190-198 walks before it meets an
\* entry that exists and is no directory (0: it meets none); ahead of it
\* the variant that never meets one.
FirstNonDir_none(kinds) == 0
FirstNonDir(kinds) ==
    IF \E i \in 1..Len(kinds) : kinds[i] = "file"
    THEN CHOOSE i \in 1..Len(kinds) :
            kinds[i] = "file" /\ \A j \in 1..(i - 1) : kinds[j] # "file"
    ELSE 0

\* fn mount_overlay_child, and two variants: one that restores nothing, one
\* that gives up when the nested overlay fails.
mount_overlay_child_nobind(mts, mount_point, relative, module_roots, stock_root, env) ==
    [ok |-> TRUE, act |-> "none", mounts |-> mts]
mount_overlay_child_nofallback(mts, mount_point, relative, module_roots, stock_root, env) ==
    LET idx == {i \in 1..Len(module_roots) : env.lower[i] = "dir"}
        all == [i \in 1..Len(module_roots) |-> [i |-> i, dir |-> module_roots[i] \o relative]]
        isdir(r) == r.i \in idx
        dirs == SelectSeq(all, isdir)
        lower_dirs == [i \in 1..Len(dirs) |-> dirs[i].dir]
        o == mount_overlayfs(mts, lower_dirs, stock_root, mount_point, env.nested)
        b == bind_mount(mts, stock_root, mount_point, env.bind)
    IN  IF \A i \in 1..Len(module_roots) : env.lower[i] = "none"
        THEN [ok |-> b.ok, act |-> IF b.ok THEN "bind" ELSE "bind_failed", mounts |-> b.mounts]
        ELSE IF env.stock # "dir"
        THEN [ok |-> TRUE, act |-> "stock_not_dir", mounts |-> mts]
        ELSE IF \E i \in 1..Len(module_roots) : env.lower[i] = "file"
        THEN [ok |-> TRUE, act |-> "lower_not_dir", mounts |-> mts]
        ELSE IF o.ok THEN [ok |-> TRUE, act |-> "overlay", mounts |-> o.mounts]
        ELSE [ok |-> FALSE, act |-> "fallback_failed", mounts |-> mts]
mount_overlay_child(mts, mount_point, relative, module_roots, stock_root, env) ==
    LET idx == {i \in 1..Len(module_roots) : env.lower[i] = "dir"}
        all == [i \in 1..Len(module_roots) |-> [i |-> i, dir |-> module_roots[i] \o relative]]
        isdir(r) == r.i \in idx
        dirs == SelectSeq(all, isdir)
        lower_dirs == [i \in 1..Len(dirs) |-> dirs[i].dir]
    IN  IF \A i \in 1..Len(module_roots) : env.lower[i] = "none"
        THEN LET b == bind_mount(mts, stock_root, mount_point, env.bind)
             IN  [ok |-> b.ok, act |-> IF b.ok THEN "bind" ELSE "bind_failed",
                  mounts |-> b.mounts]
        ELSE IF env.stock # "dir"
        THEN [ok |-> TRUE, act |-> "stock_not_dir", mounts |-> mts]
        ELSE IF FirstNonDir(env.lower) # 0
        THEN [ok |-> TRUE, act |-> "lower_not_dir", mounts |-> mts]
        ELSE IF lower_dirs = <<>>
        THEN [ok |-> TRUE, act |-> "no_lower_dir", mounts |-> mts]
        ELSE LET o == mount_overlayfs(mts, lower_dirs, stock_root, mount_point, env.nested)
                 b == bind_mount(mts, stock_root, mount_point, env.bind)
             IN  IF o.ok THEN [ok |-> TRUE, act |-> "overlay", mounts |-> o.mounts]
                 ELSE IF b.ok THEN [ok |-> TRUE, act |-> "bind_fallback", mounts |-> b.mounts]
                 ELSE [ok |-> FALSE, act |-> "fallback_failed", mounts |-> mts]

\* Ord for Option<&str> of mount points (line 230 sorts the paths as
\* strings): bytewise over the displayed path, where the '/' after a
\* component takes part.  A name that continues another one with a byte
\* below '/' sorts ahead of what lies beneath that other name.
ExtendsBelowSlash == {<<"a", "a-b">>}
RECURSIVE PathStrLess(_, _)
PathStrLess(p, q) ==
    IF q = <<>> THEN FALSE
    ELSE IF p = <<>> THEN TRUE
    ELSE IF p[1] = q[1] THEN PathStrLess(Tail(p), Tail(q))
    ELSE IF <<p[1], q[1]>> \in ExtendsBelowSlash /\ Len(p) > 1 THEN FALSE
    ELSE IF <<q[1], p[1]>> \in ExtendsBelowSlash /\ Len(q) > 1 THEN TRUE
    ELSE NameRank(p[1]) < NameRank(q[1])

RECURSIVE SortPathStrings(_)
SortPathStrings(S) ==
    IF S = {} THEN <<>>
    ELSE LET m == CHOOSE x \in S : \A y \in S : x = y \/ PathStrLess(x, y)
         IN  <<m>> \o SortPathStrings(S \ {m})

\* Lines 222-231: the mount points strictly beneath root, sorted,
\* deduplicated; ahead of it the variant that keeps root itself.
ChildMountSeq_with_root(info, root) ==
    SortPathStrings({mp \in Range(info) : IsPrefix(root, mp)})
ChildMountSeq(info, root) ==
    SortPathStrings({mp \in Range(info) : IsPrefix(root, mp) /\ ~IsPrefix(mp, root)})

\* mount_point.replacen(root, "", 1)
Relative(mount_point, root) == SubSeq(mount_point, Len(root) + 1, Len(mount_point))

\* format!("{stock_root}{relative}") with stock_root = "."
StockPath(relative) == <<".">> \o relative

InitMount ==
    /\ config = [partitions |-> <<>>, disable_umount |-> FALSE]
    /\ modules = <<>>
    /\ rootfs = [p \in ContentParts |-> FsDir]
    /\ plan = NoPlan
    /\ ppc = "idle"
    /\ IdleExec
    /\ mpc = "enter"
    /\ mountinfo \in MountInfos
    /\ mount_seq = <<>>
    /\ cidx = 0
    /\ mounts = StockMounts(<<>>, SortPaths(Range(mountinfo)))
    /\ childlog = <<>>
    /\ IdleAux

\* Lines 215-234: chdir, read mountinfo, collect the children, mount the root.
MountRoot ==
    /\ mpc = "enter"
    /\ \E chdir_ok \in BOOLEAN, info_ok \in BOOLEAN, env \in OverlayEnvs :
        IF ~(chdir_ok /\ info_ok)
        THEN /\ env.new_api
             /\ mpc' = "err"
             /\ UNCHANGED <<mount_seq, cidx, mounts>>
        ELSE LET o == mount_overlayfs(mounts, MODULE_ROOTS, MOUNT_ROOT, MOUNT_ROOT, env)
             IN  /\ mount_seq' = ChildMountSeq(mountinfo, MOUNT_ROOT)
                 /\ mounts' = o.mounts
                 /\ IF o.ok THEN mpc' = "children" /\ cidx' = 1
                            ELSE mpc' = "err" /\ cidx' = cidx
    /\ UNCHANGED <<planVars, execVars, mountinfo, childlog>>
    /\ UNCHANGED auxVars

\* Lines 235-253, one iteration: skip a child whose stock path is gone,
\* restore it otherwise; on an error unmount the root and fail.
MountChild ==
    /\ mpc = "children"
    /\ cidx <= Len(mount_seq)
    /\ LET mount_point == mount_seq[cidx]
           relative == Relative(mount_point, MOUNT_ROOT)
           stock_root == StockPath(relative)
       IN  \E env \in ConsultedChildEnvs :
            IF env.stock = "none"
            THEN /\ childlog' = Append(childlog,
                        [point |-> mount_point, stock |-> env.stock, lower |-> <<>>,
                         nested |-> env.nested, bind |-> env.bind,
                         act |-> "stock_missing"])
                 /\ cidx' = cidx + 1
                 /\ UNCHANGED <<mounts, mpc>>
            ELSE LET r == mount_overlay_child(mounts, mount_point, relative,
                                              MODULE_ROOTS, stock_root, env)
                     u == umount_dir(r.mounts, MOUNT_ROOT)
                 IN  /\ childlog' = Append(childlog,
                            [point |-> mount_point, stock |-> env.stock,
                             lower |-> env.lower, nested |-> env.nested,
                             bind |-> env.bind, act |-> r.act])
                     /\ IF r.ok
                        THEN /\ mounts' = r.mounts
                             /\ cidx' = cidx + 1
                             /\ UNCHANGED mpc
                        ELSE /\ mounts' = u.mounts
                             /\ mpc' = "err"
                             /\ UNCHANGED cidx
    /\ UNCHANGED <<planVars, execVars, mountinfo, mount_seq>>
    /\ UNCHANGED auxVars

\* Line 254
MountReturn ==
    /\ mpc = "children"
    /\ cidx > Len(mount_seq)
    /\ mpc' = "ok"
    /\ UNCHANGED <<planVars, execVars, mountinfo, mount_seq, cidx, mounts, childlog>>
    /\ UNCHANGED auxVars

NextMount == MountRoot \/ MountChild \/ MountReturn

SpecMount == InitMount /\ [][NextMount]_vars

(***************************************************************************)
(* try_umount.rs driven directly: any sequence of send_unmountable and     *)
(* commit calls on the process-global sink.                                *)
(***************************************************************************)
MaxSchedules == 4
MaxCommits == 2

\* Paths handed to send_unmountable.  The dedup key is the path's string
\* (to_string_lossy), so "/system/" is another key than "/system".
SinkPaths == {<<"system">>, <<"vendor">>, <<"system", "app">>, <<"system", "">>}

\* fn commit, lines 50-60: the list.umount() calls it makes; ok0 / ok2 are
\* the driver's answers to flags(0) and flags(2).
commit_attempts_always2(s, ok0, ok2) ==
    IF ~s.ksu THEN <<>>
    ELSE <<[flags |-> 0, ok |-> ok0], [flags |-> 2, ok |-> ok2]>>
commit_attempts(s, ok0, ok2) ==
    IF ~s.ksu THEN <<>>
    ELSE IF ok0 THEN <<[flags |-> 0, ok |-> ok0]>>
    ELSE <<[flags |-> 0, ok |-> ok0], [flags |-> 2, ok |-> ok2]>>

InitSink ==
    /\ IdlePlan
    /\ epc = "idle" /\ opIdx = 0 /\ attempts = <<>> /\ overlay_results = <<>>
    /\ magic_queue = <<>> /\ final_overlay_ids = {} /\ global_success_map = <<>>
    /\ final_magic_ids = <<>> /\ magic_outcome = "none"
    /\ sink \in {[ksu |-> k, history |-> {}, list |-> <<>>, commits |-> 0] : k \in BOOLEAN}
    /\ result = "none"
    /\ IdleMount
    /\ spc = "run"
    /\ sched = <<>>
    /\ umount_attempts = <<>>
    /\ commit_ret = "none"
    /\ IdleTree
    /\ IdleMagic
    /\ IdleWinnow
    /\ IdlePass
    /\ IdleThreads

\* One call of send_unmountable(target).
Schedule ==
    /\ spc = "run"
    /\ Len(sched) < MaxSchedules
    /\ \E target \in SinkPaths :
            /\ sink' = send_unmountable(sink, target)
            /\ sched' = Append(sched, target)
    /\ UNCHANGED <<planVars, mountVars, epc, opIdx, attempts, overlay_results, magic_queue,
                   final_overlay_ids, global_success_map, final_magic_ids, magic_outcome,
                   result, spc, umount_attempts, commit_ret, treeVars, magicVars, winnowVars, passVars, lockVars>>

\* One call of commit().
Commit ==
    /\ spc = "run"
    /\ sink.commits < MaxCommits
    /\ \E ok0 \in BOOLEAN, ok2 \in BOOLEAN :
            umount_attempts' = commit_attempts(sink, ok0, ok2)
    /\ sink' = commit(sink)
    /\ commit_ret' = "ok"
    /\ UNCHANGED <<planVars, mountVars, epc, opIdx, attempts, overlay_results, magic_queue,
                   final_overlay_ids, global_success_map, final_magic_ids, magic_outcome,
                   result, spc, sched, treeVars, magicVars, winnowVars, passVars, lockVars>>

NextSink == Schedule \/ Commit

SpecSink == InitSink /\ [][NextSink]_vars

(***************************************************************************)
(* try_umount.rs: send_unmountable() and commit() called from several      *)
(* threads.  HISTORY and LIST are two process-global mutexes; a step of a  *)
(* thread is what it does between two lock operations.                     *)
(***************************************************************************)
Threads == {1, 2}
MaxCalls == 2
ThreadPaths == {<<"system">>, <<"vendor">>}

ThreadIdle == [pc |-> "idle", call |-> "none", target |-> <<>>, calls |-> 0]

\* Mutex::lock: the caller goes on only when no thread holds the mutex.
can_lock_unguarded(l, name) == TRUE
can_lock(l, name) == l[name] = 0

InitThreads ==
    /\ IdlePlan
    /\ epc = "idle" /\ opIdx = 0 /\ attempts = <<>> /\ overlay_results = <<>>
    /\ magic_queue = <<>> /\ final_overlay_ids = {} /\ global_success_map = <<>>
    /\ final_magic_ids = <<>> /\ magic_outcome = "none"
    /\ sink \in {[ksu |-> k, history |-> {}, list |-> <<>>, commits |-> 0] : k \in BOOLEAN}
    /\ result = "none"
    /\ IdleMount
    /\ IdleSink
    /\ IdleTree
    /\ IdleMagic
    /\ IdleWinnow
    /\ IdlePass
    /\ thr = [t \in Threads |-> ThreadIdle]
    /\ locks = [history |-> 0, list |-> 0]

\* What a step of a thread leaves alone besides sink, thr and locks.
ThreadFrame ==
    UNCHANGED <<planVars, mountVars, epc, opIdx, attempts, overlay_results, magic_queue,
                final_overlay_ids, global_success_map, final_magic_ids, magic_outcome,
                result, spc, sched, treeVars, magicVars, winnowVars, passVars>>

\* send_unmountable, lines 21-25: the KSU load; without KernelSU the call
\* returns Ok at once.
CallSend(t) ==
    /\ thr[t].pc = "idle"
    /\ thr[t].calls < MaxCalls
    /\ \E target \in ThreadPaths :
          thr' = [thr EXCEPT ![t] = [pc |-> IF sink.ksu THEN "lock_history" ELSE "idle",
                                     call |-> "send", target |-> target,
                                     calls |-> thr[t].calls + 1]]
    /\ UNCHANGED <<sink, locks, umount_attempts, commit_ret>>
    /\ ThreadFrame

\* Lines 26-28: HISTORY.lock().
LockHistory(t) ==
    /\ thr[t].pc = "lock_history"
    /\ can_lock(locks, "history")
    /\ locks' = [locks EXCEPT !.history = t]
    /\ thr' = [thr EXCEPT ![t].pc = "check"]
    /\ UNCHANGED <<sink, umount_attempts, commit_ret>>
    /\ ThreadFrame

\* Lines 30-33: a path the history holds is ignored; the return drops the
\* history guard.
CheckHistory(t) ==
    /\ thr[t].pc = "check"
    /\ IF thr[t].target \in sink.history
       THEN /\ locks' = [locks EXCEPT !.history = 0]
            /\ thr' = [thr EXCEPT ![t].pc = "idle"]
       ELSE /\ thr' = [thr EXCEPT ![t].pc = "insert"]
            /\ UNCHANGED locks
    /\ UNCHANGED <<sink, umount_attempts, commit_ret>>
    /\ ThreadFrame

\* Line 35: history.insert(path_str).
InsertHistory(t) ==
    /\ thr[t].pc = "insert"
    /\ sink' = [sink EXCEPT !.history = @ \cup {thr[t].target}]
    /\ thr' = [thr EXCEPT ![t].pc = "lock_list"]
    /\ UNCHANGED <<locks, umount_attempts, commit_ret>>
    /\ ThreadFrame

\* Line 36: LIST.lock(), with the history guard still held.
LockList(t) ==
    /\ thr[t].pc = "lock_list"
    /\ can_lock(locks, "list")
    /\ locks' = [locks EXCEPT !.list = t]
    /\ thr' = [thr EXCEPT ![t].pc = "add"]
    /\ UNCHANGED <<sink, umount_attempts, commit_ret>>
    /\ ThreadFrame

\* Lines 36-38: .add(target); the list guard is a temporary of the
\* statement and is dropped at its end.
AddToList(t) ==
    /\ thr[t].pc = "add"
    /\ sink' = [sink EXCEPT !.list = Append(@, thr[t].target)]
    /\ locks' = [locks EXCEPT !.list = 0]
    /\ thr' = [thr EXCEPT ![t].pc = "return"]
    /\ UNCHANGED <<umount_attempts, commit_ret>>
    /\ ThreadFrame

\* Lines 39-40: Ok(()); the history guard is dropped.
ReturnSend(t) ==
    /\ thr[t].pc = "return"
    /\ locks' = [locks EXCEPT !.history = 0]
    /\ thr' = [thr EXCEPT ![t].pc = "idle"]
    /\ UNCHANGED <<sink, umount_attempts, commit_ret>>
    /\ ThreadFrame

\* commit, lines 43-45: the KSU load.
CallCommit(t) ==
    /\ thr[t].pc = "idle"
    /\ thr[t].calls < MaxCalls
    /\ thr' = [thr EXCEPT ![t] = [pc |-> IF sink.ksu THEN "commit_lock" ELSE "idle",
                                  call |-> "commit", target |-> <<>>,
                                  calls |-> thr[t].calls + 1]]
    /\ UNCHANGED <<sink, locks, umount_attempts, commit_ret>>
    /\ ThreadFrame

\* Lines 46-48: LIST.lock(); commit never touches HISTORY.
CommitLock(t) ==
    /\ thr[t].pc = "commit_lock"
    /\ can_lock(locks, "list")
    /\ locks' = [locks EXCEPT !.list = t]
    /\ thr' = [thr EXCEPT ![t].pc = "umount"]
    /\ UNCHANGED <<sink, umount_attempts, commit_ret>>
    /\ ThreadFrame

\* Lines 50-62: the umount attempts under the list guard, then Ok(()).
CommitUmount(t) ==
    /\ thr[t].pc = "umount"
    /\ \E ok0 \in BOOLEAN, ok2 \in BOOLEAN :
            umount_attempts' = commit_attempts(sink, ok0, ok2)
    /\ sink' = commit(sink)
    /\ commit_ret' = "ok"
    /\ locks' = [locks EXCEPT !.list = 0]
    /\ thr' = [thr EXCEPT ![t].pc = "idle"]
    /\ ThreadFrame

NextThreads ==
    \/ \E t \in Threads : CallSend(t)
    \/ \E t \in Threads : LockHistory(t)
    \/ \E t \in Threads : CheckHistory(t)
    \/ \E t \in Threads : InsertHistory(t)
    \/ \E t \in Threads : LockList(t)
    \/ \E t \in Threads : AddToList(t)
    \/ \E t \in Threads : ReturnSend(t)
    \/ \E t \in Threads : CallCommit(t)
    \/ \E t \in Threads : CommitLock(t)
    \/ \E t \in Threads : CommitUmount(t)

SpecThreads == InitThreads /\ [][NextThreads]_vars

(***************************************************************************)
(* mount/node.rs and mount/magic.rs: collecting the node tree of the magic *)
(* mount from the module directories.                                      *)
(***************************************************************************)
\* A directory entry of a module as lstat shows it: kind "file", "dir",
\* "symlink", "chr0" (a character device with rdev 0) or "fifo"; a
\* directory has its entries and may be marked replace (xattr or .replace).
ModLeaf(kind) == [kind |-> kind, replace |-> FALSE, entries |-> <<>>]
ModDir(entries, replace) == [kind |-> "dir", replace |-> replace, entries |-> entries]

\* A directory listing with up to two names; an absent entry is None.
Listing(n1, o1, n2, o2) ==
    [n \in ({n1} \cap {m \in {n1} : o1.some}) \cup ({n2} \cap {m \in {n2} : o2.some}) |->
        IF n = n1 THEN o1.v ELSE o2.v]

Maybe(S) == {None} \cup {Some(x) : x \in S}

\* <module>/system/app
AppEntries ==
    {ModLeaf(k) : k \in {"file", "symlink", "chr0"}}
    \cup {ModDir(Listing("x", x, "x", x), r) :
            x \in Maybe({ModLeaf(k) : k \in {"file", "chr0", "fifo"}}), r \in BOOLEAN}

\* <module>/system/vendor
SystemVendorEntries ==
    {ModLeaf("symlink")}
    \cup {ModDir(Listing("f", f, "f", f), FALSE) : f \in Maybe({ModLeaf("file")})}

\* <module>/system
SystemEntries ==
    {ModDir(Listing("app", a, "vendor", v), FALSE) :
        a \in Maybe(AppEntries), v \in Maybe(SystemVendorEntries)}

\* <module>/vendor
VendorEntries ==
    {ModDir(Listing("f", f, "g", g), FALSE) :
        f \in Maybe({ModLeaf("file")}), g \in Maybe({ModLeaf("file")})}

\* A module directory.
ModuleDirs ==
    {ModDir(Listing("system", sy, "vendor", ve), FALSE) :
        sy \in Maybe(SystemEntries), ve \in Maybe(VendorEntries)}

\* magic.rs line 29
ROOT_PARTITIONS == <<"vendor", "system_ext", "product", "odm">>

\* NodeFileType::from_file_type
from_file_type(kind) ==
    IF kind = "file" THEN Some("RegularFile")
    ELSE IF kind = "dir" THEN Some("Directory")
    ELSE IF kind = "symlink" THEN Some("Symlink")
    ELSE None

\* Node::new_root
new_root(name) ==
    [name |-> name, file_type |-> "Directory", children |-> <<>>,
     module_path |-> None, replace |-> FALSE, skip |-> FALSE]

\* Node::new_module
new_module(name, entry, path) ==
    LET file_type == IF entry.kind = "chr0" THEN Some("Whiteout")
                     ELSE from_file_type(entry.kind)
    IN  IF file_type.some
        THEN Some([name |-> name, file_type |-> file_type.v, children |-> <<>>,
                   module_path |-> Some(path),
                   replace |-> (file_type.v = "Directory" /\ entry.replace),
                   skip |-> FALSE])
        ELSE None

\* Node::collect_module_files (node.rs 99-125): the node after reading the
\* module directory `dir` at `dir_path`; read_dir fails on a non-directory.
RECURSIVE Node_collect_module_files(_, _, _)
Node_collect_module_files(self, dir, dir_path) ==
    IF dir.kind # "dir" THEN self
    ELSE
        LET names == DOMAIN dir.entries
            node(n) == IF n \in DOMAIN self.children THEN Some(self.children[n])
                       ELSE new_module(n, dir.entries[n], dir_path \o <<n>>)
            keep == DOMAIN self.children \cup {n \in names : node(n).some}
        IN  [self EXCEPT !.children =
                [n \in keep |->
                    IF n \notin names THEN self.children[n]
                    ELSE IF node(n).v.file_type = "Directory"
                    THEN Node_collect_module_files(node(n).v, dir.entries[n], dir_path \o <<n>>)
                    ELSE node(n).v]]

HasDir(dir, name) == name \in DOMAIN dir.entries /\ dir.entries[name].kind = "dir"

\* process_module, lines 112-128: the module's top-level partition
\* directories are attached beneath the system node.
RECURSIVE attach_root_partitions(_, _, _, _)
attach_root_partitions(system, path, dir, partitions) ==
    IF partitions = <<>> THEN system
    ELSE
        LET partition == Head(partitions)
            found == IF partition \in DOMAIN system.children
                     THEN system.children[partition] ELSE new_root(partition)
            node == IF found.file_type = "Symlink"
                    THEN [found EXCEPT !.file_type = "Directory", !.module_path = None]
                    ELSE found
            filled == Node_collect_module_files(node, dir.entries[partition],
                                                path \o <<partition>>)
        IN  IF HasDir(dir, partition)
            THEN attach_root_partitions(
                    [system EXCEPT !.children =
                        [n \in DOMAIN system.children \cup {partition} |->
                            IF n = partition THEN filled ELSE system.children[n]]],
                    path, dir, Tail(partitions))
            ELSE attach_root_partitions(system, path, dir, Tail(partitions))

\* fn process_module for an enabled module with a valid id, no exclusion
\* list and no extra partitions.
process_module(path, dir) ==
    LET system == IF HasDir(dir, "system")
                  THEN Node_collect_module_files(new_root("system"), dir.entries["system"],
                                                 path \o <<"system">>)
                  ELSE new_root("system")
    IN  [root |-> new_root(""),
         system |-> attach_root_partitions(system, path, dir, ROOT_PARTITIONS)]

\* fn merge_nodes
RECURSIVE merge_nodes_shallow(_, _)
merge_nodes_shallow(high, low) ==
    LET top == IF ~high.module_path.some
               THEN [high EXCEPT !.module_path = low.module_path,
                                 !.file_type = low.file_type, !.replace = low.replace]
               ELSE high
    IN  [top EXCEPT !.children =
            [n \in DOMAIN high.children \cup DOMAIN low.children |->
                IF n \in DOMAIN high.children THEN high.children[n] ELSE low.children[n]]]
RECURSIVE merge_nodes(_, _)
merge_nodes(high, low) ==
    LET top == IF ~high.module_path.some
               THEN [high EXCEPT !.module_path = low.module_path,
                                 !.file_type = low.file_type, !.replace = low.replace]
               ELSE high
    IN  [top EXCEPT !.children =
            [n \in DOMAIN high.children \cup DOMAIN low.children |->
                IF n \notin DOMAIN high.children THEN low.children[n]
                ELSE IF n \notin DOMAIN low.children THEN high.children[n]
                ELSE merge_nodes(high.children[n], low.children[n])]]

\* fn collect_module_files, lines 182-195: map process_module, then reduce
\* with merge_nodes (the accumulator is `high`).
RECURSIVE reduce_trees(_, _)
reduce_trees(acc, rest) ==
    IF rest = <<>> THEN acc
    ELSE reduce_trees([root |-> merge_nodes(acc.root, Head(rest).root),
                       system |-> merge_nodes(acc.system, Head(rest).system)],
                      Tail(rest))

ModulePath(i) == MODULES_DIR \o <<ModuleNames[i]>>

collect_module_files(module_paths, dirs) ==
    LET trees == [i \in 1..Len(module_paths) |-> process_module(module_paths[i], dirs[i])]
    IN  IF trees = <<>> THEN [root |-> new_root(""), system |-> new_root("system")]
        ELSE reduce_trees(Head(trees), Tail(trees))

Reverse(q) == [i \in 1..Len(q) |-> q[Len(q) + 1 - i]]

InitTree ==
    /\ IdlePlan
    /\ IdleExec
    /\ IdleMount
    /\ IdleSink
    /\ IdleMagic
    /\ IdleWinnow
    /\ IdlePass
    /\ IdleThreads
    /\ gpc = "ready"
    /\ mod_dirs \in [1..2 -> ModuleDirs]
    /\ merged = "none"

\* collect_module_files on module_paths = [A, B] and on [B, A].
Collect ==
    /\ gpc = "ready"
    /\ LET paths == [i \in 1..Len(mod_dirs) |-> ModulePath(i)]
       IN  merged' = [fwd |-> collect_module_files(paths, mod_dirs),
                      rev |-> collect_module_files(Reverse(paths), Reverse(mod_dirs))]
    /\ gpc' = "done"
    /\ UNCHANGED <<planVars, execVars, mountVars, sinkVars, mod_dirs, magicVars, winnowVars,
                   passVars, lockVars>>

NextTree == Collect

SpecTree == InitTree /\ [][NextTree]_vars

(***************************************************************************)
(* mount/magic.rs: mounting one directory node.  do_magic_mount is run on  *)
(* a directory node with up to two children (one level of directories      *)
(* below them) against every bounded live directory.  The result is what   *)
(* the node's path shows once the mount has returned; mount and chmod      *)
(* system calls are taken to succeed.                                      *)
(***************************************************************************)
\* What the live tree holds at a path.  A symlink resolves to nothing
\* (dangling) or to a regular file; a directory comes with the order in
\* which read_dir lists its entries.
NoEntry == [kind |-> "none"]
LiveFile == [kind |-> "file"]
LiveLink(target) == [kind |-> "symlink", target |-> target]
LiveDir(entries, listing) == [kind |-> "dir", entries |-> entries, listing |-> listing]

\* Path::exists follows symlinks; symlink_metadata and read_dir entries do not.
live_exists(e) == e.kind \in {"file", "dir"} \/ (e.kind = "symlink" /\ e.target # "none")

LiveAt(e, n) == IF e.kind = "dir" /\ n \in DOMAIN e.entries THEN e.entries[n] ELSE NoEntry

\* NodeFileType of a live entry's metadata.
LiveFileType(e) ==
    CASE e.kind = "file" -> "RegularFile"
      [] e.kind = "dir" -> "Directory"
      [] e.kind = "symlink" -> "Symlink"

\* What a path shows after the mount: nothing, or an entry `from` the live
\* tree untouched ("live"), mirrored into a tmpfs ("mirror"), a module file
\* or link ("module"), or a directory assembled in a tmpfs ("tmpfs").
\* own_tmpfs marks the directories that were moved onto their live path.
Gone ==
    [ok |-> TRUE, kind |-> "none", from |-> "none", src |-> None, own_tmpfs |-> FALSE,
     entries |-> <<>>]
Failed == [Gone EXCEPT !.ok = FALSE]
Shown(kind, from, src) == [Gone EXCEPT !.kind = kind, !.from = from, !.src = src]

RECURSIVE live_view(_)
live_view(e) ==
    IF e.kind = "none" THEN Gone
    ELSE IF e.kind = "dir"
    THEN [Shown("dir", "live", None) EXCEPT
              !.entries = [n \in DOMAIN e.entries |-> live_view(e.entries[n])]]
    ELSE Shown(e.kind, "live", None)

\* fn mount_mirror: a file is bind mounted, a directory re-created and its
\* entries mirrored, a symlink cloned.
RECURSIVE mount_mirror(_)
mount_mirror(e) ==
    IF e.kind = "dir"
    THEN [Shown("dir", "mirror", None) EXCEPT
              !.entries = [n \in DOMAIN e.entries |-> mount_mirror(e.entries[n])]]
    ELSE Shown(e.kind, "mirror", None)

\* The variant that lets a symlink child stay in place, and fn
\* handle_directory, lines 322-333: does this child force a tmpfs?
need_symlink_in_place(node, e) ==
    CASE node.file_type = "Symlink" -> FALSE
      [] node.file_type = "Whiteout" -> live_exists(e)
      [] OTHER -> IF e.kind # "none"
                  THEN LiveFileType(e) # node.file_type \/ LiveFileType(e) = "Symlink"
                  ELSE TRUE
need(node, e) ==
    CASE node.file_type = "Symlink" -> TRUE
      [] node.file_type = "Whiteout" -> live_exists(e)
      [] OTHER -> IF e.kind # "none"
                  THEN LiveFileType(e) # node.file_type \/ LiveFileType(e) = "Symlink"
                  ELSE TRUE

\* The variant that asks for a tmpfs for any child in need, source or not.
need_loop_no_skip(children, e, order, acc) ==
    [acc EXCEPT !.create_tmpfs = \E n \in Range(order) : need(children[n], LiveAt(e, n))]

\* fn handle_directory, lines 319-342: the children in the map's iteration
\* order; a child in need without a module source is marked skip, the first
\* one in need with a source stops the loop.
RECURSIVE need_loop(_, _, _, _)
need_loop(children, e, order, acc) ==
    IF order = <<>> THEN acc
    ELSE LET n == Head(order)
         IN  IF need(children[n], LiveAt(e, n))
             THEN IF ~children[n].module_path.some
                  THEN need_loop(children, e, Tail(order),
                                 [acc EXCEPT !.skipped = @ \cup {n}])
                  ELSE [acc EXCEPT !.create_tmpfs = TRUE]
             ELSE need_loop(children, e, Tail(order), acc)

RECURSIVE handle_directory(_, _, _)

\* fn do_magic_mount with handle_regular_file and handle_symlink.
do_magic_mount(node, e, has_tmpfs) ==
    CASE node.file_type = "RegularFile" ->
            IF node.module_path.some THEN Shown("file", "module", node.module_path)
            ELSE Failed
      [] node.file_type = "Symlink" ->
            IF ~node.module_path.some THEN Failed
            ELSE IF has_tmpfs THEN Shown("symlink", "module", node.module_path)
            ELSE live_view(e)
      [] node.file_type = "Directory" -> handle_directory(node, e, has_tmpfs)
      [] node.file_type = "Whiteout" -> IF has_tmpfs THEN Gone ELSE live_view(e)

\* fn handle_directory, lines 315-343: create_tmpfs and the children the
\* loop marked skip.
tmpfs_scan(node, e, has_tmpfs) ==
    LET create0 == ~has_tmpfs /\ node.replace /\ node.module_path.some
    IN  IF ~has_tmpfs /\ ~create0
        THEN need_loop(node.children, e, node.iter, [create_tmpfs |-> FALSE, skipped |-> {}])
        ELSE [create_tmpfs |-> create0, skipped |-> {}]

\* fn handle_directory; `listed` is the guard of the live-entry loop.
directory_view(node, e, has_tmpfs, listed) ==
    LET scan == tmpfs_scan(node, e, has_tmpfs)
        has == has_tmpfs \/ scan.create_tmpfs
        kids == DOMAIN node.children
        names == kids \cup (IF e.kind = "dir" THEN DOMAIN e.entries ELSE {})
        after == [n \in names |->
                    IF n \in kids
                    THEN IF n \in scan.skipped \/ node.children[n].skip
                         THEN IF has THEN Gone ELSE live_view(LiveAt(e, n))
                         ELSE do_magic_mount(node.children[n], LiveAt(e, n), has)
                    ELSE IF ~has THEN live_view(LiveAt(e, n))
                    ELSE IF listed THEN mount_mirror(LiveAt(e, n))
                    ELSE Gone]
        shown == {n \in names : after[n].kind # "none"}
    IN  IF (listed /\ e.kind # "dir") \/ \E n \in names : ~after[n].ok THEN Failed
        ELSE IF has
        THEN [Shown("dir", "tmpfs", node.module_path) EXCEPT
                  !.own_tmpfs = scan.create_tmpfs,
                  !.entries = [n \in shown |-> after[n]]]
        ELSE IF e.kind = "dir"
        THEN [Shown("dir", "live", None) EXCEPT !.entries = [n \in shown |-> after[n]]]
        ELSE live_view(e)

\* The variant whose live-entry loop (line 370) does not look at
\* node.replace, and fn handle_directory itself.
handle_directory_mirror_all(node, e, has_tmpfs) ==
    directory_view(node, e, has_tmpfs, live_exists(e))
handle_directory(node, e, has_tmpfs) ==
    directory_view(node, e, has_tmpfs, live_exists(e) /\ ~node.replace)

\* ---- the mount steps, in the order the walk makes them ----
\* One step: its kind, the live path it is about, and whether the node was
\* handled inside a tmpfs.
Step(op, path, tmpfs) == [op |-> op, path |-> path, tmpfs |-> tmpfs]

\* fn handle_directory, lines 406-420, as one step sequence with the moves
\* ahead of the remount (a variant), and as the code has them: remount the
\* workdir read-only, move it onto the live path, make it private, schedule
\* the live path.
finish_tmpfs_move_first(path, umount) ==
    <<Step("move_mount", path, TRUE), Step("remount_ro", path, TRUE),
      Step("make_private", path, TRUE)>>
    \o (IF umount THEN <<Step("send_unmountable", path, TRUE)>> ELSE <<>>)
finish_tmpfs(path, umount) ==
    <<Step("remount_ro", path, TRUE), Step("move_mount", path, TRUE),
      Step("make_private", path, TRUE)>>
    \o (IF umount THEN <<Step("send_unmountable", path, TRUE)>> ELSE <<>>)

RECURSIVE magic_steps(_, _, _, _, _)

\* The two loops of handle_directory, lines 370-404, over `todo` (the
\* listed live entries, then the children left in the map): each entry's
\* steps, up to the first one that fails.
RECURSIVE children_steps(_, _, _, _, _, _, _)
children_steps(node, e, has, umount, path, skipped, todo) ==
    IF todo = <<>> THEN [ok |-> TRUE, steps |-> <<>>]
    ELSE LET n == Head(todo)
             one == IF n \in DOMAIN node.children
                    THEN IF n \in skipped \/ node.children[n].skip
                         THEN [ok |-> TRUE, steps |-> <<>>]
                         ELSE magic_steps(node.children[n], LiveAt(e, n), has, umount,
                                          path \o <<n>>)
                    ELSE IF has
                    THEN [ok |-> TRUE, steps |-> <<Step("mount_mirror", path \o <<n>>, TRUE)>>]
                    ELSE [ok |-> TRUE, steps |-> <<>>]
             rest == children_steps(node, e, has, umount, path, skipped, Tail(todo))
         IN  IF ~one.ok THEN one
             ELSE [ok |-> rest.ok, steps |-> one.steps \o rest.steps]

\* fn do_magic_mount on the node whose live path is `path`: whether it
\* returned Ok, and the steps it made.
magic_steps(node, e, has_tmpfs, umount, path) ==
    CASE node.file_type = "RegularFile" ->
            IF node.module_path.some
            THEN [ok |-> TRUE, steps |-> <<Step("mount_bind", path, has_tmpfs)>>]
            ELSE [ok |-> FALSE, steps |-> <<>>]
      [] node.file_type = "Symlink" ->
            IF node.module_path.some
            THEN [ok |-> TRUE, steps |-> <<Step("clone_symlink", path, has_tmpfs)>>]
            ELSE [ok |-> FALSE, steps |-> <<>>]
      [] node.file_type = "Whiteout" -> [ok |-> TRUE, steps |-> <<>>]
      [] node.file_type = "Directory" ->
            LET scan == tmpfs_scan(node, e, has_tmpfs)
                has == has_tmpfs \/ scan.create_tmpfs
                listed == live_exists(e) /\ ~node.replace
                self_bind == IF scan.create_tmpfs
                             THEN <<Step("self_bind", path, TRUE)>> ELSE <<>>
                live_order == IF listed /\ e.kind = "dir" THEN e.listing ELSE <<>>
                left(n) == n \notin Range(live_order)
                todo == live_order \o SelectSeq(node.iter, left)
                kids == children_steps(node, e, has, umount, path, scan.skipped, todo)
            IN  IF listed /\ e.kind # "dir" THEN [ok |-> FALSE, steps |-> self_bind]
                ELSE IF ~kids.ok THEN [ok |-> FALSE, steps |-> self_bind \o kids.steps]
                ELSE [ok |-> TRUE,
                      steps |-> self_bind \o kids.steps
                                \o (IF scan.create_tmpfs THEN finish_tmpfs(path, umount)
                                    ELSE <<>>)]

\* ---- the nodes and live directories of the model ----
HdNames == {"Evil", "odm"}

MagicSrc(rel) == Some(ModulePath(1) \o <<"system">> \o rel)

MagicNode(name, file_type, children, iter, module_path, replace) ==
    [name |-> name, file_type |-> file_type, children |-> children, iter |-> iter,
     module_path |-> module_path, replace |-> replace, skip |-> FALSE]

MagicLeaf(rel, file_type) ==
    MagicNode(rel[Len(rel)], file_type, <<>>, <<>>, MagicSrc(rel), FALSE)

\* A child of the node: a file, a symlink, a whiteout, or a directory with
\* one file "f"; the directory has a module source (plain or marked
\* replace) or, under a partition's name, none (process_module, line 121).
ChildNodes(n) ==
    {MagicLeaf(<<n>>, ft) : ft \in {"RegularFile", "Symlink", "Whiteout"}}
    \cup {MagicNode(n, "Directory", "f" :> MagicLeaf(<<n, "f">>, "RegularFile"), <<"f">>,
                    d.src, d.replace) :
            d \in {[src |-> MagicSrc(<<n>>), replace |-> FALSE],
                   [src |-> MagicSrc(<<n>>), replace |-> TRUE]}
                  \cup (IF n \in Range(ROOT_PARTITIONS)
                        THEN {[src |-> None, replace |-> FALSE]} ELSE {})}

ChildMaps ==
    UNION {{c \in [S -> UNION {ChildNodes(n) : n \in S}] : \A n \in S : c[n].name = n} :
            S \in SUBSET HdNames}

\* The node under test: a directory; replace is read from a module
\* directory only (Node::new_module), so it comes with a module source.
MagicNodes ==
    {MagicNode("system", "Directory", c, it, d.src, d.replace) :
        c \in ChildMaps,
        it \in UNION {Orders(S) : S \in SUBSET HdNames},
        d \in {[src |-> MagicSrc(<<>>), replace |-> FALSE],
               [src |-> MagicSrc(<<>>), replace |-> TRUE],
               [src |-> None, replace |-> FALSE]}}

LiveEntries ==
    {LiveFile, LiveLink("none"), LiveLink("file"),
     LiveDir("old" :> LiveFile, <<"old">>), LiveDir("f" :> LiveFile, <<"f">>)}

\* The live directory at the node's path, or nothing there.
MagicLives ==
    {NoEntry}
    \cup UNION {{LiveDir(l, ord) : ord \in Orders(DOMAIN l)} :
                  l \in UNION {[S -> LiveEntries] : S \in SUBSET HdNames}}

InitMagic ==
    /\ IdlePlan
    /\ IdleExec
    /\ IdleMount
    /\ IdleSink
    /\ IdleTree
    /\ IdleWinnow
    /\ IdlePass
    /\ IdleThreads
    /\ hpc = "ready"
    /\ hd_node \in {n \in MagicNodes : Range(n.iter) = DOMAIN n.children}
    /\ hd_live \in MagicLives
    /\ hd_has_tmpfs \in BOOLEAN
    /\ hd_result = "none"
    /\ hd_umount \in BOOLEAN
    /\ hd_events = <<>>

\* MagicMount::new(node, "/", workdir, has_tmpfs, umount).do_magic_mount()
DoMagicMount ==
    /\ hpc = "ready"
    /\ hd_result' = do_magic_mount(hd_node, hd_live, hd_has_tmpfs)
    /\ hd_events' = magic_steps(hd_node, hd_live, hd_has_tmpfs, hd_umount,
                                <<hd_node.name>>).steps
    /\ hpc' = "done"
    /\ UNCHANGED <<planVars, execVars, mountVars, sinkVars, treeVars, winnowVars, passVars, lockVars,
                   hd_node, hd_live, hd_has_tmpfs, hd_umount>>

NextMagic == DoMagicMount

SpecMagic == InitMagic /\ [][NextMagic]_vars

(***************************************************************************)
(* mount/magic.rs, mount_partitions: one magic pass over the root node     *)
(* the collect phase returned, with the workspace tmpfs on <tmp>/workdir,  *)
(* followed by the executor's own unmount of <tmp> (core/executor.rs).     *)
(* hd_node holds the Option<Node> of the collect phase, hd_live the live   *)
(* root directory.                                                         *)
(***************************************************************************)
\* The root node over one partition node, and the live "/" over the
\* partition's live directory.
PassRoot(n) == MagicNode("", "Directory", n.name :> n, <<n.name>>, None, FALSE)
PassLive(l) == IF l.kind = "none" THEN LiveDir(<<>>, <<>>)
               ELSE LiveDir("system" :> l, <<"system">>)

PassRoots ==
    {PassRoot(n) : n \in {m \in MagicNodes : /\ Range(m.iter) = DOMAIN m.children
                                              /\ ~m.module_path.some}}

\* The answers of the setup steps: ensure_dir_exists, mount(tmpfs),
\* mount_change(PRIVATE).
SetupAnswers == [dir : BOOLEAN, mount : BOOLEAN, private : BOOLEAN]

InitPass ==
    /\ config \in {[partitions |-> <<>>, disable_umount |-> d] : d \in BOOLEAN}
    /\ modules = <<>>
    /\ rootfs = [p \in ContentParts |-> FsDir]
    /\ plan = NoPlan
    /\ ppc = "idle"
    /\ epc = "idle" /\ opIdx = 0 /\ attempts = <<>> /\ overlay_results = <<>>
    /\ magic_queue = <<>> /\ final_overlay_ids = {} /\ global_success_map = <<>>
    /\ final_magic_ids = <<>> /\ magic_outcome = "none"
    /\ sink \in {[ksu |-> k, history |-> {}, list |-> <<>>, commits |-> 0] : k \in BOOLEAN}
    /\ result = "none"
    /\ IdleMount
    /\ IdleSink
    /\ IdleTree
    /\ IdleWinnow
    /\ hpc = "idle"
    /\ hd_node \in {None} \cup {Some(r) : r \in PassRoots}
    /\ hd_live \in {PassLive(l) : l \in MagicLives}
    /\ hd_has_tmpfs = FALSE
    /\ hd_result = "none"
    /\ hd_umount = FALSE
    /\ hd_events = <<>>
    /\ tpc = "ready"
    /\ workspace = "absent"
    /\ pass_steps = <<>>
    /\ pass_ret = "none"
    /\ IdleThreads

\* The sink after the send_unmountable calls among the walk's steps.
RECURSIVE schedule_steps(_, _)
schedule_steps(s, steps) ==
    IF steps = <<>> THEN s
    ELSE schedule_steps(IF Head(steps).op = "send_unmountable"
                        THEN send_unmountable(s, Head(steps).path) ELSE s,
                        Tail(steps))

\* fn mount_partitions, lines 425-482, under the answers a: the steps that
\* ran, the state of the workspace tmpfs, the walk, the sink, the return.
mount_partitions(root, live, cfg, s, a) ==
    LET none == [steps |-> <<>>, workspace |-> "absent", walk |-> "none", events |-> <<>>,
                 sink |-> s, ret |-> "ok"]
        walk == magic_steps(root.v, live, FALSE, ~cfg.disable_umount, <<>>)
        walked == schedule_steps(s, walk.steps)
    IN  IF ~root.some THEN none
        ELSE IF ~a.dir
        THEN [none EXCEPT !.steps = <<"ensure_dir_exists">>, !.ret = "err"]
        ELSE IF ~a.mount
        THEN [none EXCEPT !.steps = <<"ensure_dir_exists", "mount_tmpfs">>, !.ret = "err"]
        ELSE IF ~a.private
        THEN [none EXCEPT !.steps = <<"ensure_dir_exists", "mount_tmpfs", "make_private">>,
                          !.workspace = "mounted", !.ret = "err"]
        ELSE [steps |-> <<"ensure_dir_exists", "mount_tmpfs", "make_private",
                          "do_magic_mount", "unmount_detach">>
                        \o (IF ~cfg.disable_umount THEN <<"commit">> ELSE <<>>)
                        \o <<"remove_dir">>,
              workspace |-> "detached",
              walk |-> do_magic_mount(root.v, live, FALSE),
              events |-> walk.steps,
              sink |-> IF ~cfg.disable_umount THEN commit(walked) ELSE walked,
              ret |-> IF walk.ok THEN "ok" ELSE "err"]

MountPartitions ==
    /\ tpc = "ready"
    /\ \E a \in SetupAnswers :
          LET r == mount_partitions(hd_node, hd_live, config, sink, a)
          IN  /\ pass_steps' = r.steps
              /\ workspace' = r.workspace
              /\ hd_result' = r.walk
              /\ hd_events' = r.events
              /\ sink' = r.sink
              /\ pass_ret' = r.ret
    /\ hd_umount' = ~config.disable_umount
    /\ tpc' = "returned"
    /\ UNCHANGED <<planVars, epc, opIdx, attempts, overlay_results, magic_queue,
                   final_overlay_ids, global_success_map, final_magic_ids, magic_outcome,
                   result, mountVars, spc, sched, umount_attempts, commit_ret, treeVars,
                   winnowVars, lockVars, hpc, hd_node, hd_live, hd_has_tmpfs>>

\* core/executor.rs, lines 256-258, after the pass returned:
\* unmount(<tmp>, DETACH) with its result dropped.  It takes the tmpfs on
\* <tmp>/workdir along when <tmp> is a mount point itself and does nothing
\* otherwise; which one depends on the directory select_temp_dir chose.
UnmountTempdir ==
    /\ tpc = "returned"
    /\ \E is_mount_point \in BOOLEAN :
          workspace' = IF workspace = "mounted" /\ is_mount_point THEN "detached"
                       ELSE workspace
    /\ pass_steps' = Append(pass_steps, "unmount_tempdir")
    /\ tpc' = "done"
    /\ UNCHANGED <<planVars, execVars, mountVars, sinkVars, treeVars, winnowVars, magicVars,
                   lockVars, pass_ret>>

NextPass ==
    \/ MountPartitions
    \/ UnmountTempdir

SpecPass == InitPass /\ [][NextPass]_vars

(***************************************************************************)
(* core/winnow.rs and conf/config.rs: sift_conflicts on every bounded      *)
(* conflict list and winnowing table.  A table key and a conflict path are *)
(* paths; format!("/system/{}", relative_path) puts "system" in front.     *)
(***************************************************************************)
MaxConflicts == 2
MaxContenders == 2

WinnowModules == {"A", "B", "C"}
HostsPath == <<"etc", "hosts">>
RelativePaths == {HostsPath, <<"lib", "libx.so">>}

\* WinnowingTable.rules: no rule, a rule for /system/etc/hosts, or rules
\* for both paths.
WinnowTables ==
    {<<>>}
    \cup {(<<"system">> \o HostsPath) :> m : m \in WinnowModules}
    \cup {[k \in {<<"system">> \o p : p \in RelativePaths} |->
              IF k = <<"system">> \o HostsPath THEN "B" ELSE "A"]}

\* ConflictDetail as sift_conflicts reads it: relative_path and
\* contending_modules (distinct module ids, in order).
ContenderLists ==
    UNION {Orders(S) : S \in {T \in SUBSET WinnowModules : Cardinality(T) <= MaxContenders}}

ConflictDetails ==
    {[relative_path |-> p, contending_modules |-> cm] :
        p \in RelativePaths, cm \in ContenderLists}

ConflictLists == UNION {[1..n -> ConflictDetails] : n \in 0..MaxConflicts}

\* fn WinnowingTable::get_preferred_module
get_preferred_module(table, file_path) ==
    IF file_path \in DOMAIN table THEN Some(table[file_path]) ELSE None

\* contending_modules.last().unwrap_or(&"unknown".to_string())
last_contender(cm) == IF cm = <<>> THEN "unknown" ELSE cm[Len(cm)]

\* The variant that takes the table's module without looking at the
\* contenders, and `let selected = ..` of sift_conflicts, lines 21-29.
selected_module_unchecked(cm, forced_module) ==
    IF forced_module.some THEN forced_module.v ELSE last_contender(cm)
selected_module(cm, forced_module) ==
    IF forced_module.some
    THEN IF forced_module.v \in Range(cm) THEN forced_module.v ELSE last_contender(cm)
    ELSE last_contender(cm)

\* fn sift_conflicts
sift_conflicts(cs, table) ==
    [i \in 1..Len(cs) |->
        LET path == <<"system">> \o cs[i].relative_path
            forced_module == get_preferred_module(table, path)
        IN  [path |-> path,
             contenders |-> cs[i].contending_modules,
             selected |-> selected_module(cs[i].contending_modules, forced_module),
             is_forced |-> forced_module.some]]

InitWinnow ==
    /\ IdlePlan
    /\ IdleExec
    /\ IdleMount
    /\ IdleSink
    /\ IdleTree
    /\ IdleMagic
    /\ IdlePass
    /\ IdleThreads
    /\ wpc = "ready"
    /\ wtable \in WinnowTables
    /\ conflicts \in ConflictLists
    /\ report = "none"

Sift ==
    /\ wpc = "ready"
    /\ report' = sift_conflicts(conflicts, wtable)
    /\ wpc' = "done"
    /\ UNCHANGED <<planVars, execVars, mountVars, sinkVars, treeVars, magicVars,
                   passVars, lockVars, wtable, conflicts>>

NextWinnow == Sift

SpecWinnow == InitWinnow /\ [][NextWinnow]_vars

(***************************************************************************)
(* sift_conflicts on conflicts of several partitions.  ConflictDetail      *)
(* (core::planner) carries the partition the conflict was detected in,     *)
(* the relative path and the contenders; the table has rules for paths     *)
(* under /system and under /vendor.                                        *)
(***************************************************************************)
ConflictPartitions == {"system", "vendor"}

PartitionTables ==
    {<<>>}
    \cup {(<<part>> \o HostsPath) :> m : part \in ConflictPartitions, m \in {"A", "B"}}
    \cup {[k \in {<<part>> \o HostsPath : part \in ConflictPartitions} |->
              IF k = <<"vendor">> \o HostsPath THEN "A" ELSE "B"]}

PartitionConflicts ==
    {[partition |-> part, relative_path |-> HostsPath, contending_modules |-> cm] :
        part \in ConflictPartitions, cm \in ContenderLists}

InitWinnowPartitions ==
    /\ IdlePlan
    /\ IdleExec
    /\ IdleMount
    /\ IdleSink
    /\ IdleTree
    /\ IdleMagic
    /\ IdlePass
    /\ IdleThreads
    /\ wpc = "ready"
    /\ wtable \in PartitionTables
    /\ conflicts \in UNION {[1..n -> PartitionConflicts] : n \in 0..MaxConflicts}
    /\ report = "none"

SpecWinnowPartitions == InitWinnowPartitions /\ [][NextWinnow]_vars

(***************************************************************************)
(* generate() with a winnowing table in the configuration                  *)
(* (Config.winnowing, conf/config.rs line 81; wtable holds its rules).     *)
(* The modules are overlay modules; a module whose system content is       *)
(* "files" provides /system/etc/hosts.                                     *)
(***************************************************************************)
OverlayInventories ==
    {inv \in Inventories : \A i \in 1..Len(inv) : inv[i].mode = "overlay"}

InitWinnowPlan ==
    /\ config \in PlannerConfigs
    /\ modules \in OverlayInventories
    /\ rootfs \in {fs \in RootFsChoices : fs["system"] = FsDir /\ fs["vendor"] \in {FsDir, FsMissing}}
    /\ plan = NoPlan
    /\ ppc = "ready"
    /\ IdleExec
    /\ IdleMount
    /\ IdleSink
    /\ IdleTree
    /\ IdleMagic
    /\ IdlePass
    /\ IdleThreads
    /\ wpc = "idle"
    /\ wtable \in WinnowTables
    /\ conflicts = <<>>
    /\ report = "none"

SpecWinnowPlan == InitWinnowPlan /\ [][Generate]_vars

(***************************************************************************)
(* Properties                                                              *)
(***************************************************************************)
Ops == plan.overlay_ops

\* The module a planned lowerdir <storage>/<id>/<part> belongs to.
LayerModule(layer) == layer[Len(STORAGE_ROOT) + 1]
LayerModuleRoot(layer) == SubSeq(layer, 1, Len(STORAGE_ROOT) + 1)

FailedOps == {attempts[i].op : i \in {j \in 1..Len(attempts) : ~attempts[j].ok}}
MountedOps == {attempts[i].op : i \in {j \in 1..Len(attempts) : attempts[j].ok}}
ModulesOfOp(k) == {LayerModule(Ops[k].lowerdirs[i]) : i \in 1..Len(Ops[k].lowerdirs)}

C2_Original ==
    epc = "done" =>
        \A k \in FailedOps : \A id \in ModulesOfOp(k) :
            /\ id \notin Range(result.overlay_module_ids)
            /\ id \in Range(result.magic_module_ids)

\* C2 amended: when the overlay mount of an op fails, every module with a
\* lowerdir in that op is removed from overlay_module_ids and its module root
\* is in the magic-mount queue; it is listed in magic_module_ids when
\* magic_mount succeeds, and magic_module_ids is empty when magic_mount fails.
C2_FallbackToMagic ==
    epc = "done" =>
        \A k \in FailedOps : \A i \in 1..Len(Ops[k].lowerdirs) :
            LET layer == Ops[k].lowerdirs[i]
            IN  /\ LayerModule(layer) \notin Range(result.overlay_module_ids)
                /\ LayerModuleRoot(layer) \in Range(magic_queue)
                /\ magic_outcome \in {"ok", "failed"}
                /\ magic_outcome = "ok" =>
                        LayerModule(layer) \in Range(result.magic_module_ids)
                /\ magic_outcome = "failed" => result.magic_module_ids = <<>>

\* C2 witness: an op failed, the magic pass succeeded and lists its module.
C2_Witness ==
    /\ epc = "done"
    /\ magic_outcome = "ok"
    /\ \E k \in FailedOps : \E id \in ModulesOfOp(k) :
            /\ id \in Range(plan.overlay_module_ids)
            /\ id \in Range(result.magic_module_ids)
            /\ id \notin Range(result.overlay_module_ids)

AttemptedInPlanOrder == [i \in 1..Len(attempts) |-> attempts[i].op] = [i \in 1..Len(Ops) |-> i]

\* C3 as stated: with a failing op, every op of the plan is still attempted
\* exactly once in plan order and execute() returns a result, not an error.
C3_Original ==
    (epc \in {"done", "error"} /\ FailedOps # {}) =>
        (AttemptedInPlanOrder /\ result.ok)

\* C3 amended: every op of the plan is attempted exactly once, in plan
\* order, whatever earlier ops did, and the overlay phase raises no error;
\* execute() returns an error only when the magic pass that follows cannot
\* set up its temp directory (select_temp_dir or create_dir_all fails).
C3_AllOpsAttempted ==
    /\ epc = "overlay" => [i \in 1..Len(attempts) |-> attempts[i].op] = [i \in 1..(opIdx - 1) |-> i]
    /\ epc \in {"magic", "finish", "done", "error"} => AttemptedInPlanOrder
    /\ epc = "done" => result.ok
    /\ epc = "error" => (~result.ok /\ magic_outcome = "setup_failed" /\ magic_queue # <<>>)

\* C3 witness: the first op failed, a later op was mounted, a result came back.
C3_Witness ==
    /\ epc = "done"
    /\ result.ok
    /\ Len(attempts) >= 2
    /\ ~attempts[1].ok
    /\ attempts[2].ok

RootOverlayMounted ==
    \E i \in 1..Len(mounts) : mounts[i].kind = "overlay" /\ mounts[i].point = MOUNT_ROOT

StrictlyBeneath(mp, root) == IsPrefix(root, mp) /\ mp # root

CoveredByStockBind(mp) ==
    LET top == TopMount(mounts, mp)
    IN  /\ top.some
        /\ top.v.kind = "bind"
        /\ top.v.src = StockPath(Relative(mp, MOUNT_ROOT))

C5_ErrorLeavesNoOverlay ==
    mpc = "err" => ~RootOverlayMounted

SortedByTarget(ops) ==
    \A i, j \in 1..Len(ops) :
        i < j => (ops[i].target = ops[j].target \/ PathLess(ops[i].target, ops[j].target))

\* C6: generate() returns overlay_ops in ascending order of target.
C6_OpsSortedByTarget ==
    ppc = "done" => SortedByTarget(Ops)

\* Bytes of a path as displayed, and of paths joined with ':'.
RECURSIVE PathBytes(_)
PathBytes(p) == IF p = <<>> THEN 0 ELSE 1 + Len(Head(p)) + PathBytes(Tail(p))

RECURSIVE JoinedBytes(_)
JoinedBytes(ps) ==
    IF ps = <<>> THEN 0
    ELSE PathBytes(Head(ps)) + (IF Len(ps) > 1 THEN 1 ELSE 0) + JoinedBytes(Tail(ps))

\* C7: the overlay mount of every OverlayOp gets between 1 and 128 module
\* lowerdirs, and the ':'-joined lowerdir option is at most 3000 bytes.
C7_LayerCaps ==
    ppc = "done" =>
        \A k \in 1..Len(Ops) :
            /\ Len(Ops[k].lowerdirs) >= 1
            /\ Len(Ops[k].lowerdirs) <= 128
            /\ JoinedBytes(lowerdir_config(Ops[k].lowerdirs, Ops[k].target)) <= 3000

NoFiles(m) == \A p \in DOMAIN m.content : m.content[p] # "files"

\* C8: a module whose partition directories are all empty contributes no
\* lowerdir and is in neither overlay_module_ids nor magic_module_ids nor
\* magic_module_paths, whatever its mode.
C8_EmptyModuleExcluded ==
    ppc = "done" =>
        \A i \in 1..Len(modules) : NoFiles(modules[i]) =>
            /\ modules[i].id \notin Range(plan.overlay_module_ids)
            /\ modules[i].id \notin Range(plan.magic_module_ids)
            /\ SourcePath(modules[i]) \notin Range(plan.magic_module_paths)
            /\ \A k \in 1..Len(Ops) : \A l \in 1..Len(Ops[k].lowerdirs) :
                    /\ ~IsPrefix(StoragePath(modules[i]), Ops[k].lowerdirs[l])
                    /\ ~IsPrefix(SourcePath(modules[i]), Ops[k].lowerdirs[l])

\* C8 witness: an overlay module and a magic module with only empty
\* partition directories, next to a module that does get an OverlayOp.
C8_Witness ==
    /\ ppc = "done"
    /\ Ops # <<>>
    /\ \E i \in 1..Len(modules) :
            /\ NoFiles(modules[i])
            /\ \E p \in DOMAIN modules[i].content : modules[i].content[p] = "empty"

\* C9: every OverlayOp target is the canonical form of "/<partition>" and an
\* existing directory; a partition whose path is missing or resolves to a
\* non-directory yields no OverlayOp.
C9_TargetsCanonicalDirs ==
    ppc = "done" =>
        /\ \A k \in 1..Len(Ops) :
                LET c == Canonicalize(rootfs, <<Ops[k].partition_name>>, SymlinkFuel)
                IN  /\ c.ok
                    /\ Ops[k].target = c.path
                    /\ FsEntry(rootfs, Ops[k].target).kind = "dir"
        /\ \A part \in DOMAIN PartitionLayers(modules, TargetPartitions(config)) :
                LET c == Canonicalize(rootfs, <<part>>, SymlinkFuel)
                IN  (~c.ok \/ c.kind # "dir") =>
                        ~\E k \in 1..Len(Ops) : Ops[k].partition_name = part

\* C9 witness: /vendor is a symlink into /system and the vendor op targets
\* /system/vendor, next to the op for /system itself.
C9_Witness ==
    /\ ppc = "done"
    /\ rootfs["vendor"].kind = "link"
    /\ Len(Ops) = 2
    /\ \E k \in 1..Len(Ops) :
            /\ Ops[k].partition_name = "vendor"
            /\ Ops[k].target = <<"system", "vendor">>

\* C10: no OverlayOp's lowerdir list is empty or holds a directory twice.
C10_LowerdirsDistinct ==
    ppc = "done" =>
        \A k \in 1..Len(Ops) :
            /\ Ops[k].lowerdirs # <<>>
            /\ \A i, j \in 1..Len(Ops[k].lowerdirs) :
                    Ops[k].lowerdirs[i] = Ops[k].lowerdirs[j] => i = j

\* The first occurrences of a sequence, in order.
RECURSIVE FirstOccurrences(_)
FirstOccurrences(q) ==
    IF q = <<>> THEN <<>>
    ELSE LET front == SubSeq(q, 1, Len(q) - 1)
             rest == FirstOccurrences(front)
         IN  IF \E i \in 1..Len(front) : front[i] = q[Len(q)]
             THEN rest ELSE Append(rest, q[Len(q)])

C12_CommitTwoAttempts ==
    commit_ret # "none" =>
        /\ commit_ret = "ok"
        /\ Len(umount_attempts) <= 2
        /\ sink.ksu => (Len(umount_attempts) >= 1 /\ umount_attempts[1].flags = 0)
        /\ ~sink.ksu => umount_attempts = <<>>
        /\ Len(umount_attempts) = 2 =>
                (~umount_attempts[1].ok /\ umount_attempts[2].flags = 2)
        /\ (Len(umount_attempts) >= 1 /\ ~umount_attempts[1].ok) => Len(umount_attempts) = 2

\* C12 witness: both attempts failed and commit() returned Ok.
C12_Witness ==
    /\ commit_ret = "ok"
    /\ Len(umount_attempts) = 2
    /\ ~umount_attempts[1].ok
    /\ ~umount_attempts[2].ok

\* C13: in one run of execute(), magic pass included, the umount-sink commit
\* is invoked exactly once, after all mount operations.
C13_CommitOnce ==
    (epc = "done" /\ sink.ksu /\ ~config.disable_umount) => sink.commits = 1

\* The tree process_module builds for module i of mod_dirs alone.
ModuleTree(i) == process_module(ModulePath(i), mod_dirs[i])

\* Wherever both trees have a node, both nodes are directories.
RECURSIVE SharesOnlyDirectories(_, _)
SharesOnlyDirectories(a, b) ==
    \A n \in DOMAIN a.children \cap DOMAIN b.children :
        /\ a.children[n].file_type = "Directory"
        /\ b.children[n].file_type = "Directory"
        /\ SharesOnlyDirectories(a.children[n], b.children[n])

\* Same children at every level, same file types, and the same backing
\* source for every node that is no directory.
RECURSIVE SameTree(_, _)
SameTree(a, b) ==
    /\ a.file_type = b.file_type
    /\ a.file_type # "Directory" => a.module_path = b.module_path
    /\ DOMAIN a.children = DOMAIN b.children
    /\ \A n \in DOMAIN a.children : SameTree(a.children[n], b.children[n])

\* C14: for two module trees that share nothing but directories, merging
\* in order [A, B] and in order [B, A] gives the same node tree.
C14_MergeOrderIndependent ==
    (gpc = "done" /\ SharesOnlyDirectories(ModuleTree(1).system, ModuleTree(2).system)) =>
        /\ SameTree(merged.fwd.system, merged.rev.system)
        /\ SameTree(merged.fwd.root, merged.rev.root)

\* C14 witness: both modules fill the same directory with different files
\* (system/vendor/f of one, vendor/g of the other) and the merged directory
\* holds both.
C14_Witness ==
    /\ gpc = "done"
    /\ SharesOnlyDirectories(ModuleTree(1).system, ModuleTree(2).system)
    /\ \E n \in DOMAIN ModuleTree(1).system.children \cap DOMAIN ModuleTree(2).system.children :
            /\ ModuleTree(1).system.children[n].children # <<>>
            /\ ModuleTree(2).system.children[n].children # <<>>
            /\ Cardinality(DOMAIN merged.fwd.system.children[n].children) = 2
            /\ merged.fwd.system.children[n].module_path = merged.rev.system.children[n].module_path

\* The paths (as node pairs) where both trees have a node and one of the two
\* is no directory: there the merged subtree is the first tree's subtree.
RECURSIVE FirstWins(_, _, _)
FirstWins(a, b, m) ==
    \A n \in DOMAIN a.children \cap DOMAIN b.children :
        IF a.children[n].file_type = "Directory" /\ b.children[n].file_type = "Directory"
        THEN n \in DOMAIN m.children /\ FirstWins(a.children[n], b.children[n], m.children[n])
        ELSE n \in DOMAIN m.children /\ m.children[n] = a.children[n]

\* C15: where two modules provide an entry at the same path and one side is
\* no directory, the merged tree holds the first module's node there and
\* nothing of the later module's entry.
C15_FirstModuleWins ==
    gpc = "done" =>
        FirstWins(ModuleTree(1).system, ModuleTree(2).system, merged.fwd.system)

\* The node under test carries a whiteout for a name the live directory
\* holds (Path::exists), and the mount returned Ok.
WhiteoutOverLive ==
    /\ hpc = "done"
    /\ hd_result.ok
    /\ "Evil" \in DOMAIN hd_node.children
    /\ hd_node.children["Evil"].file_type = "Whiteout"
    /\ live_exists(LiveAt(hd_live, "Evil"))

\* The other names the directory should show: the module's entries that
\* are no whiteouts, and the live entries no whiteout is aimed at.
OtherModule ==
    {n \in DOMAIN hd_node.children \ {"Evil"} : hd_node.children[n].file_type # "Whiteout"}
OtherLive ==
    {n \in DOMAIN hd_live.entries \ {"Evil"} :
        n \in DOMAIN hd_node.children => n \in OtherModule}

\* C16: a whiteout over an existing live path leaves the parent covered by
\* a tmpfs that lacks the name and holds every other live entry and every
\* other module entry.  Stated for parents not marked replace: a replace
\* parent shows no live entry at all (C17).
C16_WhiteoutHidesOnlyItsName ==
    (WhiteoutOverLive /\ ~hd_node.replace) =>
        /\ hd_result.from = "tmpfs"
        /\ "Evil" \notin DOMAIN hd_result.entries
        /\ OtherLive \cup OtherModule \subseteq DOMAIN hd_result.entries

\* C17: a replace directory with a module source shows exactly the
\* module's children (whiteouts aside), none of them a live entry, in its
\* own tmpfs or in the ancestor's.
C17_ReplaceShowsOnlyModule ==
    (hpc = "done" /\ hd_result.ok /\ hd_node.replace /\ hd_node.module_path.some) =>
        /\ hd_result.from = "tmpfs"
        /\ hd_result.own_tmpfs = ~hd_has_tmpfs
        /\ DOMAIN hd_result.entries =
              {n \in DOMAIN hd_node.children : hd_node.children[n].file_type # "Whiteout"}
        /\ \A n \in DOMAIN hd_result.entries :
              /\ hd_result.entries[n].from \in {"module", "tmpfs"}
              /\ hd_result.entries[n].src = hd_node.children[n].module_path

C17_Witness ==
    /\ hpc = "done" /\ hd_result.ok /\ hd_node.replace /\ hd_node.module_path.some
    /\ hd_live.kind = "dir"
    /\ "Evil" \in DOMAIN hd_live.entries
    /\ DOMAIN hd_node.children = {"odm"}
    /\ DOMAIN hd_result.entries = {"odm"}
    /\ hd_result.entries["odm"].from = "module"

\* The table's answer for the path of conflict i, and whether it names one
\* of the contenders.
TableNamesContender(i) ==
    /\ report[i].path \in DOMAIN wtable
    /\ wtable[report[i].path] \in Range(conflicts[i].contending_modules)

\* C18: each conflict gets the table's module when the table has an entry
\* for its path that names a contender, and the last contender otherwise;
\* with at least one contender the selected module is a contender.
C18_SelectionRule ==
    wpc = "done" =>
        /\ Len(report) = Len(conflicts)
        /\ \A i \in 1..Len(conflicts) :
              LET cm == conflicts[i].contending_modules
              IN  /\ report[i].path = <<"system">> \o conflicts[i].relative_path
                  /\ TableNamesContender(i) => report[i].selected = wtable[report[i].path]
                  /\ (~TableNamesContender(i) /\ cm # <<>>) => report[i].selected = cm[Len(cm)]
                  /\ cm # <<>> => report[i].selected \in Range(cm)

C18_Witness ==
    /\ wpc = "done"
    /\ Len(report) = 2
    /\ TableNamesContender(1)
    /\ report[1].contenders = <<"B", "A">>
    /\ report[1].selected = "B"
    /\ ~TableNamesContender(2)
    /\ report[2].path \in DOMAIN wtable
    /\ report[2].selected = "B"
    /\ report[2].contenders = <<"C", "B">>

\* C19: is_forced is true exactly when the selection was taken from the
\* table, false whenever it fell back to the last contender.
C19_ForcedIffFromTable ==
    wpc = "done" =>
        \A i \in 1..Len(report) : report[i].is_forced <=> TableNamesContender(i)

\* The partition's op of the plan and the place of a module's layer in its
\* lowerdirs (0: the module has no layer there).
SystemOps == {k \in 1..Len(Ops) : Ops[k].partition_name = "system"}
LayerIndex(k, id) ==
    LET at == {i \in 1..Len(Ops[k].lowerdirs) : LayerModule(Ops[k].lowerdirs[i]) = id}
    IN  IF at = {} THEN 0 ELSE CHOOSE i \in at : TRUE
InventoryIndex(id) == CHOOSE i \in 1..Len(modules) : modules[i].id = id

\* The table prefers module id for /system/etc/hosts and op k stacks that
\* module's layer together with another module's.
PreferredAmongLayers(k, id) ==
    /\ <<"system">> \o HostsPath \in DOMAIN wtable
    /\ wtable[<<"system">> \o HostsPath] = id
    /\ LayerIndex(k, id) > 0
    /\ Len(Ops[k].lowerdirs) > 1

\* C20 as stated: the preferred module's layer is the first lowerdir.
C20_Original ==
    ppc = "done" =>
        \A k \in SystemOps : \A id \in WinnowModules :
            PreferredAmongLayers(k, id) => LayerIndex(k, id) = 1

\* C20: the lowerdirs of every op follow the inventory order of their
\* modules, whatever the winnowing table prefers: a layer is never placed
\* before the layer of a module that precedes its own in the inventory.
C20_LowerdirsFollowInventory ==
    ppc = "done" =>
        \A k \in 1..Len(Ops) : \A i, j \in 1..Len(Ops[k].lowerdirs) :
            i < j => InventoryIndex(LayerModule(Ops[k].lowerdirs[i]))
                        <= InventoryIndex(LayerModule(Ops[k].lowerdirs[j]))

C20_Witness ==
    /\ ppc = "done"
    /\ \E k \in SystemOps :
          /\ PreferredAmongLayers(k, "B")
          /\ LayerIndex(k, "A") = 1
          /\ LayerIndex(k, "B") = 2


\* The walk made the tmpfs of the node under test: it bind-mounted the
\* node's workdir onto itself.
MadeTmpfs ==
    \E i \in 1..Len(hd_events) : hd_events[i] = Step("self_bind", <<hd_node.name>>, TRUE)

\* The children the claim's four cases name: a symlink, a whiteout whose
\* live path exists, a child whose type differs from the live entry's, a
\* child that is no whiteout and whose live path is missing.
InNeed(n) ==
    LET c == hd_node.children[n]
        l == LiveAt(hd_live, n)
    IN  \/ c.file_type = "Symlink"
        \/ c.file_type = "Whiteout" /\ live_exists(l)
        \/ c.file_type # "Whiteout" /\ l.kind # "none" /\ LiveFileType(l) # c.file_type
        \/ c.file_type # "Whiteout" /\ l.kind = "none"

StepsOf(op) == {i \in 1..Len(hd_events) : hd_events[i].op = op}

\* C22: whatever the tree, the live directory and the iteration order, and
\* whether or not the walk starts inside a tmpfs, every symlink the walk
\* clones is handled with has_tmpfs true.
C22_SymlinkOnlyInTmpfs ==
    \A i \in StepsOf("clone_symlink") : hd_events[i].tmpfs

\* A walk that starts outside any tmpfs and clones a symlink after a file
\* child that the iteration put first.
C22_Witness ==
    /\ hpc = "done" /\ ~hd_has_tmpfs /\ ~hd_node.replace
    /\ hd_node.iter = <<"Evil", "odm">>
    /\ hd_node.children["Evil"].file_type = "RegularFile"
    /\ hd_node.children["odm"].file_type = "Symlink"
    /\ hd_live.kind = "dir" /\ hd_live.entries = ("Evil" :> LiveFile)
    /\ hd_events[1] = Step("self_bind", <<"system">>, TRUE)
    /\ \E i \in StepsOf("clone_symlink") :
          hd_events[i] = Step("clone_symlink", <<"system", "odm">>, TRUE)

\* The steps the walk made at a path, and the directories whose tmpfs it
\* began.
StepAt(i, op, path) == i \in 1..Len(hd_events) /\ hd_events[i] = Step(op, path, TRUE)
TmpfsBegun == StepsOf("self_bind")

\* C23: a directory that gets a tmpfs has its workdir bound onto itself,
\* then only steps for paths below it, then the remount, the move onto the
\* live path, the change to private and (when unmounting is on) the
\* scheduling, one after the other; the move is made iff the walk of that
\* directory returned Ok, so a failed child leaves the live path uncovered.
C23_TmpfsStepOrder ==
    hpc = "done" =>
        /\ \A i \in TmpfsBegun :
              LET p == hd_events[i].path
                  moves == {k \in StepsOf("move_mount") : hd_events[k].path = p}
              IN  /\ hd_result.ok => moves # {}
                  /\ \A k \in moves :
                        /\ k > i + 1
                        /\ \A j \in (i + 1)..(k - 2) : StrictlyBeneath(hd_events[j].path, p)
                        /\ StepAt(k - 1, "remount_ro", p)
                        /\ StepAt(k + 1, "make_private", p)
                        /\ hd_umount <=> StepAt(k + 2, "send_unmountable", p)
        /\ \A k \in StepsOf("move_mount") \cup StepsOf("send_unmountable") :
              \E i \in TmpfsBegun : i < k /\ hd_events[i].path = hd_events[k].path
        /\ ~hd_result.ok => \A k \in StepsOf("move_mount") : hd_events[k].path # <<hd_node.name>>

\* A directory with a symlink child and a new file child, unmounting on:
\* self-bind, the two children, then the four closing steps.
C23_Witness ==
    /\ hpc = "done" /\ hd_result.ok /\ hd_umount /\ ~hd_has_tmpfs
    /\ Len(hd_events) = 7
    /\ hd_events[1] = Step("self_bind", <<"system">>, TRUE)
    /\ hd_events[2] = Step("clone_symlink", <<"system", "Evil">>, TRUE)
    /\ hd_events[3] = Step("mount_bind", <<"system", "odm">>, TRUE)
    /\ hd_events[4] = Step("remount_ro", <<"system">>, TRUE)
    /\ hd_events[5] = Step("move_mount", <<"system">>, TRUE)
    /\ hd_events[6] = Step("make_private", <<"system">>, TRUE)
    /\ hd_events[7] = Step("send_unmountable", <<"system">>, TRUE)

\* C24: when the magic pass has returned, whatever the exit path, the
\* workspace tmpfs it mounted is no longer mounted.
C24_WorkspaceReleased ==
    tpc = "returned" => workspace # "mounted"

\* The top mount at a mount point, if there is one, is of this kind.
TopKind(mp, kind) ==
    LET top == TopMount(mounts, mp) IN top.some /\ top.v.kind = kind

\* C25: a child whose nested overlay failed is covered by a plain bind
\* mount of its stock path when the bind succeeds, and the op goes on;
\* the op fails at a child with contributing lowerdirs only if both the
\* nested overlay and the bind failed there.
C25_NestedFailureFallsBackToBind ==
    \A i \in 1..Len(childlog) :
        LET c == childlog[i]
            nested_failed == ~(c.nested.new_api \/ c.nested.legacy)
            contributes == /\ c.stock = "dir"
                           /\ \E l \in 1..Len(MODULE_ROOTS) : c.lower[l] = "dir"
                           /\ \A l \in 1..Len(MODULE_ROOTS) : c.lower[l] # "file"
            bound == bind_mount(<<>>, StockPath(Relative(c.point, MOUNT_ROOT)), c.point, c.bind)
        IN  /\ c.act \in {"bind_fallback", "fallback_failed"} <=> (contributes /\ nested_failed)
            /\ c.act = "fallback_failed" => ~bound.ok
            /\ (c.act = "bind_fallback" /\ i = Len(childlog) /\ mpc = "children")
                  => CoveredByStockBind(c.point)
            /\ c.act = "bind_fallback" => mpc # "err" \/ i < Len(childlog)
            /\ (contributes /\ mpc = "err" /\ i = Len(childlog))
                  => c.act = "fallback_failed" /\ nested_failed

\* The op went on after a child's nested overlay failed and the bind of
\* the stock path took its place.
C25_Witness ==
    /\ mpc = "ok"
    /\ RootOverlayMounted
    /\ \E i \in 1..Len(childlog) :
          /\ childlog[i].act = "bind_fallback"
          /\ ~childlog[i].nested.new_api /\ ~childlog[i].nested.legacy
          /\ CoveredByStockBind(childlog[i].point)

\* The child mount point processed last, and what it looked like.
LastChild == childlog[Len(childlog)]
NoLowerContributes(c) == \A l \in 1..Len(MODULE_ROOTS) : c.lower[l] = "none"

\* C26: a child mount to which no lowerdir contributes is bind-mounted
\* only if its stock path is a directory; for a stock path that is no
\* directory bind_mount is not called.
C26_BindOnlyStockDirectory ==
    \A i \in 1..Len(childlog) :
        (childlog[i].stock # "none" /\ NoLowerContributes(childlog[i])) =>
            /\ childlog[i].act = "bind" => childlog[i].stock = "dir"
            /\ childlog[i].stock = "file" => childlog[i].act \notin {"bind", "bind_failed"}

\* A lowerdir holds a non-directory at the relative path of the child.
LowerNonDir(c) == \E l \in 1..Len(c.lower) : c.lower[l] = "file"

\* C27: the step that processes a child mount for which some lowerdir
\* holds a non-directory mounts nothing and raises no error: the mount
\* table is unchanged, the root overlay is still mounted and the loop goes
\* on to the next child.
C27_NonDirLowerAbandonsChild ==
    [][(Len(childlog') = Len(childlog) + 1 /\ LowerNonDir(childlog'[Len(childlog')])) =>
            /\ mounts' = mounts
            /\ RootOverlayMounted'
            /\ mpc' = "children"
            /\ cidx' = cidx + 1
            /\ childlog'[Len(childlog')].act \in {"stock_not_dir", "lower_not_dir"}]_vars

\* The op returned Ok after it abandoned a child whose first lowerdir holds
\* a directory and whose second holds a file, over a stock directory.
C27_Witness ==
    /\ mpc = "ok"
    /\ RootOverlayMounted
    /\ childlog # <<>>
    /\ LastChild.stock = "dir"
    /\ LastChild.lower[1] = "dir"
    /\ LowerNonDir(LastChild)
    /\ LastChild.act = "lower_not_dir"
    /\ ~TopKind(LastChild.point, "overlay")
    /\ ~TopKind(LastChild.point, "bind")

\* The children for which bind_mount was called, by what they got.
BindCalled(c) == c.act \in {"bind", "bind_failed", "bind_fallback", "fallback_failed"}
BindFailed(c) == c.act \in {"bind_failed", "fallback_failed"}

\* C29: bind_mount fails only if the legacy mount(2) fails too: whenever it
\* was called and mount(2) with BIND|REC would succeed, the bind is made,
\* whether open_tree or move_mount failed.
C29_BindFallsBackToLegacy ==
    \A i \in 1..Len(childlog) :
        (BindCalled(childlog[i]) /\ BindFailed(childlog[i])) => ~childlog[i].bind.legacy

\* The targets of the ops whose mount_overlay returned Ok so far, in the
\* order of the attempts.
MountedTargets ==
    LET ok(a) == a.ok
        done == SelectSeq(attempts, ok)
    IN  [i \in 1..Len(done) |-> plan.overlay_ops[done[i].op].target]

PartitionKey(i) == <<conflicts[i].partition>> \o conflicts[i].relative_path

\* C30: every conflict is looked up under /<its partition>/<relative
\* path>: the table has answered for the conflict iff it has a rule for
\* that key, and a rule for that key naming a contender decides the
\* selection, in /vendor as in /system.
C30_KeyFromConflictPartition ==
    wpc = "done" =>
        \A i \in 1..Len(conflicts) :
            /\ report[i].is_forced <=> PartitionKey(i) \in DOMAIN wtable
            /\ (/\ PartitionKey(i) \in DOMAIN wtable
                /\ wtable[PartitionKey(i)] \in Range(conflicts[i].contending_modules))
                  => report[i].selected = wtable[PartitionKey(i)]

\* The overlay mounts of the mount table.
OverlayMounts == {i \in 1..Len(mounts) : mounts[i].kind = "overlay"}

\* The module directories for a mount point, in the order of the op's
\* lowerdirs, and the live directory the mount was made over: the target
\* for the root overlay, the stock path for a child.
ModuleDirsAt(point) ==
    [k \in 1..Len(MODULE_ROOTS) |-> MODULE_ROOTS[k] \o Relative(point, MOUNT_ROOT)]
LiveDirAt(point) ==
    IF point = MOUNT_ROOT THEN MOUNT_ROOT ELSE StockPath(Relative(point, MOUNT_ROOT))

\* C31: in every overlay mount, made through fsconfig or through mount(2),
\* the last layer of the lowerdir option is the live directory and the
\* layers before it are module directories in the order of the op's
\* lowerdirs (all of them for the root overlay), at least one.
C31_LiveTargetIsLowestLayer ==
    \A i \in OverlayMounts :
        LET layers == mounts[i].src
            upper == SubSeq(layers, 1, Len(layers) - 1)
            all == ModuleDirsAt(mounts[i].point)
            used(d) == d \in Range(upper)
        IN  /\ mounts[i].via \in {"fsconfig", "mount"}
            /\ Len(layers) >= 2
            /\ layers[Len(layers)] = LiveDirAt(mounts[i].point)
            /\ upper = SelectSeq(all, used)
            /\ mounts[i].point = MOUNT_ROOT => upper = MODULE_ROOTS

\* The root overlay made by mount(2) and a nested overlay made through
\* fsconfig, both with the two module directories above the live one.
C31_Witness ==
    /\ mpc = "ok"
    /\ \E i, j \in OverlayMounts :
          /\ mounts[i].point = MOUNT_ROOT /\ mounts[i].via = "mount"
          /\ mounts[i].src = MODULE_ROOTS \o <<MOUNT_ROOT>>
          /\ mounts[j].point # MOUNT_ROOT /\ mounts[j].via = "fsconfig"
          /\ mounts[j].src = ModuleDirsAt(mounts[j].point) \o <<LiveDirAt(mounts[j].point)>>

\* The mount points of mountinfo strictly beneath the target.
Beneath == {mp \in Range(mountinfo) : StrictlyBeneath(mp, MOUNT_ROOT)}

\* C32: once collected, the child mounts are exactly the listed mount
\* points strictly beneath the target, each once; the children processed
\* so far are the first ones of that sequence, none twice, and whenever a
\* child is processed every collected mount point it is nested beneath
\* has been processed before it.
C32_ChildrenBeneathOnceParentFirst ==
    /\ mpc \in {"children", "ok"} =>
          /\ Range(mount_seq) = Beneath
          /\ Len(mount_seq) = Cardinality(Beneath)
    /\ Len(childlog) <= Len(mount_seq)
    /\ \A i \in 1..Len(childlog) : childlog[i].point = mount_seq[i]
    /\ \A i, j \in 1..Len(childlog) : childlog[i].point = childlog[j].point => i = j
    /\ \A j \in 1..Len(childlog) : \A mp \in Range(mount_seq) :
          StrictlyBeneath(childlog[j].point, mp) =>
              \E i \in 1..(j - 1) : childlog[i].point = mp

\* mountinfo lists the target, /system_ext and a child twice; /system/a
\* and then /system/a/b were processed, each once.
C32_Witness ==
    /\ mpc = "ok"
    /\ MOUNT_ROOT \in Range(mountinfo)
    /\ <<"system_ext">> \in Range(mountinfo)
    /\ \E i, j \in 1..Len(mountinfo) : i # j /\ mountinfo[i] = mountinfo[j]
    /\ Len(childlog) = 2
    /\ childlog[1].point = <<"system", "a">>
    /\ childlog[2].point = <<"system", "a", "b">>

\* C33: the OverlayOps of a plan have pairwise distinct targets.
C33_TargetsDistinct ==
    ppc = "done" =>
        \A i, j \in 1..Len(Ops) : Ops[i].target = Ops[j].target => i = j

\* C34: every module of overlay_module_ids has a lowerdir in some
\* OverlayOp of the plan.
C34_OverlayIdsHaveLowerdir ==
    ppc = "done" =>
        \A id \in Range(plan.overlay_module_ids) :
            \E k \in 1..Len(Ops) : id \in ModulesOfOp(k)

\* The partition directory a planned lowerdir <storage>/<id>/<part> is, the
\* partition directories module id has lowerdirs for, and the ids the
\* executor hands to the magic pass.
LayerPartition(layer) == layer[Len(layer)]
PlannedPartitions(id) ==
    UNION {{LayerPartition(l) : l \in {m \in Range(Ops[k].lowerdirs) : LayerModule(m) = id}} :
            k \in 1..Len(Ops)}
MagicNeedIds == Range(MagicIdsOf(magic_queue))

\* C35: after a magic pass that ran, no partition directory of a module
\* whose overlay was mounted is part of that module's magic tree.
C35_OverlaidPartitionsExcluded ==
    magic_outcome = "ok" =>
        \A k \in MountedOps : \A i \in 1..Len(Ops[k].lowerdirs) :
            LET id == LayerModule(Ops[k].lowerdirs[i])
            IN  LayerPartition(Ops[k].lowerdirs[i])
                    \notin magic_tree_partitions(id, MagicNeedIds, PlannedPartitions(id))

\* The node under test with its children map iterated in another order.
Reordered(order) == [hd_node EXCEPT !.iter = order]

\* C36: the walk of the same node over the same live directory under any
\* other iteration order of the children map makes the same tmpfs and skip
\* decisions and ends in the same mounted view.
C36_SkipIndependentOfOrder ==
    hpc = "done" =>
        \A order \in Orders(DOMAIN hd_node.children) :
            /\ tmpfs_scan(Reordered(order), hd_live, hd_has_tmpfs)
                  = tmpfs_scan(hd_node, hd_live, hd_has_tmpfs)
            /\ do_magic_mount(Reordered(order), hd_live, hd_has_tmpfs) = hd_result

\* Every node of the tree that has children is a directory.
RECURSIVE OnlyDirectoriesHaveChildren(_)
OnlyDirectoriesHaveChildren(node) ==
    /\ DOMAIN node.children # {} => node.file_type = "Directory"
    /\ \A n \in DOMAIN node.children : OnlyDirectoriesHaveChildren(node.children[n])

\* C37: in the trees collected and merged from the module directories only
\* directory nodes have children.
C37_OnlyDirectoriesHaveChildren ==
    gpc = "done" =>
        /\ OnlyDirectoriesHaveChildren(merged.fwd.root)
        /\ OnlyDirectoriesHaveChildren(merged.fwd.system)

\* C38: a non-replace directory that is shown from a tmpfs after a walk
\* that returned Ok shows every entry the live directory held, those
\* named by a whiteout node aside.
C38_LiveEntriesStayVisible ==
    (/\ hpc = "done" /\ hd_result.ok /\ ~hd_node.replace
     /\ hd_result.from = "tmpfs" /\ hd_live.kind = "dir") =>
        \A n \in DOMAIN hd_live.entries :
            \/ n \in DOMAIN hd_node.children /\ hd_node.children[n].file_type = "Whiteout"
            \/ n \in DOMAIN hd_result.entries

\* How often the queue holds a path, the lock a thread waits for, and
\* whether another thread holds it.
QueuedTimes(p) == Cardinality({i \in DOMAIN sink.list : sink.list[i] = p})
WaitsFor(t) ==
    IF thr[t].pc = "lock_history" THEN "history"
    ELSE IF thr[t].pc \in {"lock_list", "commit_lock"} THEN "list"
    ELSE "none"
Blocked(t) == WaitsFor(t) # "none" /\ locks[WaitsFor(t)] # 0

FallenBackModules == UNION {ModulesOfOp(k) : k \in FailedOps}
PlannedMagicModules == Range(plan.magic_module_ids)

\* C40: when magic_mount fails, execute() returns Ok with an empty
\* magic_module_ids, and no module that fell back from a failed overlay op
\* or was planned for the magic mount is in overlay_module_ids or in
\* magic_module_ids of the result.
C40_FailedMagicPassDropsModules ==
    (epc = "done" /\ magic_outcome = "failed") =>
        /\ result.ok
        /\ result.magic_module_ids = <<>>
        /\ \A id \in FallenBackModules \cup PlannedMagicModules :
                /\ id \notin Range(result.overlay_module_ids)
                /\ id \notin Range(result.magic_module_ids)

\* execute() has returned after a failed magic pass that held both a
\* module fallen back from a failed op and a module planned for magic.
C40_Witness ==
    /\ epc = "done" /\ magic_outcome = "failed"
    /\ FallenBackModules # {}
    /\ PlannedMagicModules \ FallenBackModules # {}
    /\ result.ok

============================================================================
